---- MODULE Spec2Model ----
(***************************************************************************)
(* Model of the song streaming backend (music_player_backend/src/api):     *)
(* Range-header parsing, the chunked file range generator, media path      *)
(* resolution, the upload_song and stream_song routes and db.py.           *)
(*                                                                         *)
(* Strings are sequences of one-character strings, so that prefix tests,   *)
(* strip(), split() and int() are computed rather than assumed.            *)
(***************************************************************************)
EXTENDS Integers, Sequences, FiniteSets, TLC

VARIABLES
    \* ---- _parse_range_header(range_header, file_size) ----
    range_header,   \* the header value, a sequence of characters
    file_size,      \* the file_size argument
    byte_range,     \* the returned value: None, or <<start, end>>
    ppc,            \* "idle" | "call" | "returned"
    \* ---- the filesystem ----
    fs,             \* path -> [kind: "absent" | "dir" | "file", data: bytes]
    modified,       \* TRUE once a file was changed after the generator was made
    \* ---- one generator object made by _iter_file_range(path, start, end, chunk_size) ----
    gen,            \* its arguments: [path, start, end, chunk_size]
    gpc,            \* "idle" | "created" | "suspended" | "done" | "raised" | "closed"
    handle,         \* the file object f: "none" | "open" | "closed"
    snapshot,       \* the file's bytes when it was opened (what a buffer may still hold)
    fpos,           \* the file position of f
    remaining,      \* the local variable remaining
    out,            \* the chunks yielded so far, in order
    pulls,          \* number of next() calls made by the consumer
    read_closed,    \* TRUE once f.read was called on a handle that is not open
    \* ---- configuration and _resolve_song_media_path(song_filename) ----
    env_media_root, \* the MEDIA_ROOT setting after `.strip() or "media"`, as path parts
    song_filename,  \* the stored reference, as path parts (<<>> is the empty string)
    resolved,       \* the outcome: a returned path or the raised HTTPException
    rpc,            \* "idle" | "call" | "returned"
    \* ---- the songs table and the GET /songs/{song_id}/stream requests ----
    db,             \* song id -> the committed row: [filename, title, ...]
    req,            \* thread -> the request it handles: [song_id, range_header,
                    \* song (the ORM instance its session loaded), stat_ok,
                    \* upload_pc (where the upload was when the request arrived)]
    resp,           \* thread -> the response of stream_song, NoResponse before it
    \* ---- _sanitize_filename(name) ----
    san,            \* [pc, name, result, again]: one call and a second on its result
    \* ---- one POST /songs/upload request ----
    upload,         \* [pc, filename, content_type, content, title, artist, safe_name,
                    \* song_id, stored_filename, status, detail]; pc is "idle" |
                    \* "made_dir" | "stored" | "saving" | "done"; when done, status 0 with a
                    \* detail is an exception that escaped the handler
    \* ---- db.py: the module globals and the threads calling get_db_session ----
    ENGINE,         \* _ENGINE: None or the engine object, <<"Engine", number>>
    SessionLocal,   \* _SessionLocal: None or <<"sessionmaker", its engine>>
    made,           \* [engines, factories]: how many of each were created
    db_config_ok,   \* FALSE when _build_database_url raises RuntimeError
    tpc,            \* thread -> where it is in get_engine, get_db_session or
                    \* its handler
    tlocal          \* thread -> the value its last call returned, which its
                    \* next step stores into the global

parseVars == <<range_header, file_size, byte_range, ppc>>
genVars == <<gen, gpc, handle, snapshot, fpos, remaining, out, pulls, read_closed>>
fsVars == <<fs, modified>>
resolveVars == <<song_filename, resolved, rpc>>
cfgVars == <<env_media_root>>
reqVars == <<db, req, resp>>
sanVars == <<san>>
upVars == <<upload>>
engVars == <<ENGINE, SessionLocal, made, db_config_ok, tpc, tlocal>>

vars == <<range_header, file_size, byte_range, ppc, fs, modified,
          gen, gpc, handle, snapshot, fpos, remaining, out, pulls, read_closed,
          env_media_root, song_filename, resolved, rpc, db, req, resp,
          san, upload, ENGINE, SessionLocal, made, db_config_ok, tpc, tlocal>>

(***************************************************************************)
(* Bounds of the model.                                                    *)
(***************************************************************************)
MaxSpecLen == 4     \* longest range-spec (the part after "bytes=") enumerated
MaxFileSize == 3    \* largest file size enumerated
MaxNum == 22        \* largest number the claims' headers are formatted from
MaxChunk == 3       \* largest chunk_size argument enumerated
MaxRefLen == 3      \* most path parts of a relative stored reference enumerated
MaxNameLen == 4     \* longest argument of _sanitize_filename enumerated
NumThreads == 3     \* request threads calling get_db_session concurrently

(***************************************************************************)
(* Generic helpers.                                                        *)
(***************************************************************************)
Min(a, b) == IF a <= b THEN a ELSE b
Max(a, b) == IF a >= b THEN a ELSE b

None == <<"None">>      \* Python's None (no tuple of integers equals it)

\* Python truthiness of an Optional[Tuple[int, int]]: None is falsy, a
\* 2-tuple is truthy whatever its members are.
Truthy(v) == v # None /\ Len(v) > 0

(***************************************************************************)
(* Characters and strings.                                                 *)
(***************************************************************************)
\* The characters of the model are those of Latin-1 (U+0000..U+00FF), which
\* is what a header value or a form field decoded as Latin-1 can hold.
Digits == {"0", "1", "2", "3", "4", "5", "6", "7", "8", "9"}
\* what str.strip() strips: space, \t, \n, \r, \f, the control characters
\* U+000B (\v), U+001C, U+001D, U+001E, U+001F, and the Latin-1 characters
\* U+0085 (next line) and U+00A0 (no-break space)
Whitespace == {" ", "\t", "\n", "\r", "\f", "", "", "", "", "", "", " "}
\* what int() skips around a literal: space, \t, \n, \r, \f, U+000B, U+0085
\* and U+00A0, but not U+001C..U+001F
IntWhitespace == {" ", "\t", "\n", "\r", "\f", "", "", " "}
\* the characters the enumerated range-specs are made of (the whitespace
\* is U+00A0)
SpecChars == {"0", "1", "2"} \cup {" "} \cup {"-", "+", ",", "_", "x"}

DigitVal(c) == CASE c = "0" -> 0 [] c = "1" -> 1 [] c = "2" -> 2
                 [] c = "3" -> 3 [] c = "4" -> 4 [] c = "5" -> 5
                 [] c = "6" -> 6 [] c = "7" -> 7 [] c = "8" -> 8
                 [] c = "9" -> 9

BytesPrefix == <<"b", "y", "t", "e", "s", "=">>
OtherPrefix == <<"i", "t", "e", "m", "s", "=">>

\* str.startswith
StartsWith(s, p) == Len(s) >= Len(p) /\ SubSeq(s, 1, Len(p)) = p

\* str.strip(): drop leading and trailing whitespace
RECURSIVE LStrip(_)
LStrip(s) == IF s # <<>> /\ Head(s) \in Whitespace THEN LStrip(Tail(s)) ELSE s
RECURSIVE RStrip(_)
RStrip(s) == IF s # <<>> /\ s[Len(s)] \in Whitespace
             THEN RStrip(SubSeq(s, 1, Len(s) - 1)) ELSE s
Strip(s) == RStrip(LStrip(s))

\* c in s
Contains(s, c) == \E i \in 1..Len(s) : s[i] = c

\* index of the first occurrence of c in s (0 when there is none)
FirstIndex(s, c) == IF Contains(s, c)
                    THEN CHOOSE i \in 1..Len(s) :
                           s[i] = c /\ \A j \in 1..(i - 1) : s[j] # c
                    ELSE 0

\* (spec.split("-", 1) + [""])[:2]
SplitDash(s) == LET i == FirstIndex(s, "-")
                IN IF i = 0 THEN <<s, <<>>>>
                   ELSE <<SubSeq(s, 1, i - 1), SubSeq(s, i + 1, Len(s))>>

\* value of the digits of an unsigned literal, its "_" skipped
RECURSIVE DigitsVal(_)
DigitsVal(s) == IF s = <<>> THEN 0
                ELSE IF s[Len(s)] = "_" THEN DigitsVal(SubSeq(s, 1, Len(s) - 1))
                ELSE 10 * DigitsVal(SubSeq(s, 1, Len(s) - 1)) + DigitVal(s[Len(s)])

\* the unsigned literals int() accepts: decimal digits, with single
\* underscores allowed between two digits ("1_0", not "_1", "1_", "1__0")
AllDigits(s) ==
    /\ s # <<>>
    /\ \A i \in 1..Len(s) : s[i] \in Digits \cup {"_"}
    /\ s[1] \in Digits
    /\ s[Len(s)] \in Digits
    /\ \A i \in 1..(Len(s) - 1) : ~(s[i] = "_" /\ s[i + 1] = "_")

\* int(s): the whitespace of IntWhitespace around the literal is skipped,
\* then an optional sign and an unsigned literal; anything else raises
\* ValueError (ok = FALSE).
ParseInt(s) ==
    LET kept == {i \in 1..Len(s) : s[i] \notin IntWhitespace}
        t == IF kept = {} THEN <<>>
             ELSE SubSeq(s, CHOOSE i \in kept : \A j \in kept : i <= j,
                            CHOOSE i \in kept : \A j \in kept : i >= j)
    IN IF t # <<>> /\ t[1] \in {"-", "+"}
       THEN IF AllDigits(Tail(t))
            THEN [ok |-> TRUE,
                  val |-> IF t[1] = "-" THEN 0 - DigitsVal(Tail(t)) ELSE DigitsVal(Tail(t))]
            ELSE [ok |-> FALSE, val |-> 0]
       ELSE IF AllDigits(t) THEN [ok |-> TRUE, val |-> DigitsVal(t)]
            ELSE [ok |-> FALSE, val |-> 0]

\* str(n) for an integer n, as the f-strings of the module format it
DigitChar(d) == CASE d = 0 -> "0" [] d = 1 -> "1" [] d = 2 -> "2"
                  [] d = 3 -> "3" [] d = 4 -> "4" [] d = 5 -> "5"
                  [] d = 6 -> "6" [] d = 7 -> "7" [] d = 8 -> "8"
                  [] d = 9 -> "9"
RECURSIVE NatStr(_)
NatStr(n) == IF n < 10 THEN <<DigitChar(n)>>
             ELSE NatStr(n \div 10) \o <<DigitChar(n % 10)>>
IntStr(n) == IF n < 0 THEN <<"-">> \o NatStr(0 - n) ELSE NatStr(n)

(***************************************************************************)
(* _parse_range_header                                                     *)
(***************************************************************************)
\* suffix range "bytes=-N": the last N bytes
SuffixRangeNoMax(suffix_len, fsz) ==
    IF suffix_len <= 0 THEN None
    ELSE <<fsz - suffix_len, fsz - 1>>

\* a suffix range that gives up on an empty file
SuffixRangeRejectsEmpty(suffix_len, fsz) ==
    IF suffix_len <= 0 \/ fsz <= 0 THEN None
    ELSE <<Max(fsz - suffix_len, 0), fsz - 1>>

SuffixRange(suffix_len, fsz) ==
    IF suffix_len <= 0 THEN None
    ELSE <<Max(fsz - suffix_len, 0), fsz - 1>>

\* "bytes=S-E" / "bytes=S-": has_end says whether E was given
ExplicitRangeNoClamp(start, has_end, end_in, fsz) ==
    LET end == IF has_end THEN end_in ELSE fsz - 1
    IN IF start < 0 THEN None
       ELSE IF end < start THEN None
       ELSE IF start >= fsz THEN None
       ELSE <<start, end>>

ExplicitRangeClampFirst(start, has_end, end_in, fsz) ==
    LET end == Min(IF has_end THEN end_in ELSE fsz - 1, fsz - 1)
    IN IF start < 0 THEN None
       ELSE IF start >= fsz THEN None
       ELSE <<start, Max(end, start)>>

\* an open range "bytes=S-" read as the single byte S
ExplicitRangeOpenIsOneByte(start, has_end, end_in, fsz) ==
    LET end == IF has_end THEN end_in ELSE start
    IN IF start < 0 THEN None
       ELSE IF end < start THEN None
       ELSE IF start >= fsz THEN None
       ELSE <<start, Min(end, fsz - 1)>>

ExplicitRange(start, has_end, end_in, fsz) ==
    LET end == IF has_end THEN end_in ELSE fsz - 1
    IN IF start < 0 THEN None
       ELSE IF end < start THEN None
       ELSE IF start >= fsz THEN None
       ELSE <<start, Min(end, fsz - 1)>>

parse_range_header(hdr, fsz) ==
    IF hdr = <<>> THEN None
    ELSE IF ~StartsWith(hdr, BytesPrefix) THEN None
    ELSE LET spec == Strip(SubSeq(hdr, Len(BytesPrefix) + 1, Len(hdr)))
         IN IF Contains(spec, ",") THEN None
            ELSE LET parts == SplitDash(spec)
                     start_s == Strip(parts[1])
                     end_s == Strip(parts[2])
                 IN IF start_s = <<>> /\ end_s = <<>> THEN None
                    ELSE IF start_s = <<>>
                    THEN LET n == ParseInt(end_s)
                         IN IF ~n.ok THEN None
                            ELSE SuffixRange(n.val, fsz)
                    ELSE LET s == ParseInt(start_s)
                             e == ParseInt(end_s)
                         IN IF ~s.ok THEN None
                            ELSE IF s.val < 0 THEN None
                            ELSE IF end_s # <<>> /\ ~e.ok THEN None
                            ELSE ExplicitRange(s.val, end_s # <<>>, e.val, fsz)

(***************************************************************************)
(* Specification SpecParse: the parser applied to every header over        *)
(* SpecChars up to MaxSpecLen, with and without the "bytes=" prefix.       *)
(***************************************************************************)
Headers == {<<>>} \cup {p \o s : p \in {BytesPrefix, OtherPrefix},
                                  s \in UNION {[1..n -> SpecChars] : n \in 0..MaxSpecLen}}
FileSizes == 0..MaxFileSize

ParseStart ==
    /\ range_header \in Headers
    /\ file_size \in FileSizes
    /\ byte_range = None
    /\ ppc = "call"

ParseIdle ==
    /\ range_header = <<>>
    /\ file_size = 0
    /\ byte_range = None
    /\ ppc = "idle"

ParseReturn ==
    /\ ppc = "call"
    /\ byte_range' = parse_range_header(range_header, file_size)
    /\ ppc' = "returned"
    /\ UNCHANGED <<range_header, file_size>>

(***************************************************************************)
(* Files and the generator of _iter_file_range.                            *)
(***************************************************************************)
ByteVals == {0, 1}
Contents == UNION {[1..n -> ByteVals] : n \in 0..MaxFileSize}

Absent == [kind |-> "absent", data |-> <<>>]
Dir == [kind |-> "dir", data |-> <<>>]
File(bytes) == [kind |-> "file", data |-> bytes]
Link(target) == [kind |-> "link", data |-> target]
Loop == [kind |-> "loop", data |-> <<>>]    \* a lookup that ends in ELOOP

(***************************************************************************)
(* Paths. A path is the sequence of its parts as pathlib's Path.parts      *)
(* gives them: an absolute path starts with the part "/". fs maps the      *)
(* absolute paths at which a regular file or a symbolic link may be to     *)
(* their node; a directory is there when something lies below it.          *)
(***************************************************************************)
Root == <<"/">>
BackendRoot == <<"/", "srv", "app">>        \* _BACKEND_ROOT (resolved at import)

\* Path(text): "." parts are dropped by the constructor
RECURSIVE PathOf(_)
PathOf(parts) == IF parts = <<>> THEN <<>>
                 ELSE IF Head(parts) = "." THEN PathOf(Tail(parts))
                 ELSE <<Head(parts)>> \o PathOf(Tail(parts))

\* Path.is_absolute()
IsAbsolute(p) == p # <<>> /\ Head(p) = "/"

\* a / b
Join(a, b) == IF IsAbsolute(b) THEN b ELSE a \o b

Parent(p) == IF Len(p) <= 1 THEN p ELSE SubSeq(p, 1, Len(p) - 1)

IsPrefix(a, b) == Len(a) <= Len(b) /\ SubSeq(b, 1, Len(a)) = a

IsLink(p) == p \in DOMAIN fs /\ fs[p].kind = "link"

\* os.path.normpath of an absolute path: "." dropped, ".." steps back
\* lexically (and stays at the root)
RECURSIVE Norm(_, _)
Norm(done, rest) ==
    IF rest = <<>> THEN done
    ELSE IF Head(rest) = "." THEN Norm(done, Tail(rest))
    ELSE IF Head(rest) = ".." THEN Norm(Parent(done), Tail(rest))
    ELSE Norm(Append(done, Head(rest)), Tail(rest))

\* posixpath._joinrealpath (not strict): walk the parts from `path`; a ".."
\* steps to the parent of what was resolved so far; a part that names a
\* symbolic link is replaced by the resolution of the link's (absolute)
\* target; a part that does not exist is kept as it is. `resolving` holds the
\* links whose targets are being resolved: meeting one of them again is a
\* symlink loop, and the walk stops with the rest of the path unresolved.
RECURSIVE JoinRealPath(_, _, _)
JoinRealPath(path, rest, resolving) ==
    IF rest = <<>> THEN [path |-> path, ok |-> TRUE]
    ELSE IF Head(rest) = "." THEN JoinRealPath(path, Tail(rest), resolving)
    ELSE IF Head(rest) = ".." THEN JoinRealPath(Parent(path), Tail(rest), resolving)
    ELSE LET newpath == Append(path, Head(rest))
         IN IF ~IsLink(newpath) THEN JoinRealPath(newpath, Tail(rest), resolving)
            ELSE IF newpath \in resolving
                 THEN [path |-> newpath \o Tail(rest), ok |-> FALSE]
            ELSE LET t == JoinRealPath(Root, Tail(fs[newpath].data),
                                       resolving \cup {newpath})
                 IN IF ~t.ok THEN [path |-> t.path \o Tail(rest), ok |-> FALSE]
                    ELSE JoinRealPath(t.path, Tail(rest), resolving)

\* os.path.realpath(p) of an absolute path: abspath(_joinrealpath(...))
Walk(cur, rest) == Norm(Root, Tail(JoinRealPath(cur, rest, {}).path))

\* candidate.relative_to(root) does not raise ValueError
RelativeToAlways(p, root) == TRUE

RelativeTo(p, root) == IsPrefix(root, p)

\* what lies, in the filesystem f, at a path that was reached part by part
\* (lstat): a node of f, or a directory when it is the root, above the
\* backend root, or above a node of f
NodeHereIn(f, q) ==
    IF q \in DOMAIN f /\ f[q].kind # "absent" THEN f[q]
    ELSE IF \/ q = Root
            \/ IsPrefix(q, BackendRoot)
            \/ \E r \in DOMAIN f : f[r].kind # "absent" /\ IsPrefix(q, r) /\ q # r
         THEN Dir
         ELSE Absent
NodeHere(q) == NodeHereIn(fs, q)

\* errno values of a path lookup that fails
ENOENT == <<"ENOENT">>
ELOOP == <<"ELOOP">>

\* the operating system's path lookup in f, as stat() and open() do it:
\* every part is looked up in the directory reached so far, so a part (even
\* "..") after something that is not a directory fails (ENOENT / ENOTDIR,
\* both given as ENOENT here); symbolic links are followed, at most `hops` of
\* them (ELOOP beyond). `seen` holds the links followed so far, each with
\* the rest of the path it was followed with: following one of them again
\* with the same rest goes round for ever, and so beyond every number of
\* hops. Gives the path reached; its last part may not exist.
RECURSIVE ReachIn(_, _, _, _, _)
ReachIn(f, cur, rest, hops, seen) ==
    IF rest = <<>> THEN cur
    ELSE IF NodeHereIn(f, cur).kind # "dir" THEN ENOENT
    ELSE IF Head(rest) = "." THEN ReachIn(f, cur, Tail(rest), hops, seen)
    ELSE IF Head(rest) = ".." THEN ReachIn(f, Parent(cur), Tail(rest), hops, seen)
    ELSE LET child == Append(cur, Head(rest))
         IN IF child \in DOMAIN f /\ f[child].kind = "link"
            THEN IF hops = 0 \/ <<child, Tail(rest)>> \in seen THEN ELOOP
                 ELSE ReachIn(f, Root, Tail(f[child].data) \o Tail(rest), hops - 1,
                              seen \cup {<<child, Tail(rest)>>})
            ELSE ReachIn(f, child, Tail(rest), hops, seen)

\* the path an absolute path leads to, links followed (Linux follows at
\* most 40 links in one lookup)
RealPathIn(f, p) == ReachIn(f, Root, Tail(p), 40, {})
RealPath(p) == RealPathIn(fs, p)

\* the node an absolute path leads to, links followed
NodeAt(p) ==
    LET q == RealPath(p)
    IN IF q = ENOENT THEN Absent
       ELSE IF q = ELOOP THEN Loop
       ELSE NodeHere(q)

\* Path.is_file(), Path.exists(): False as well when the lookup fails
\* (ENOENT, ENOTDIR and ELOOP are ignored by both)
IsFile(p) == NodeAt(p).kind = "file"
Exists(p) == NodeAt(p).kind \notin {"absent", "loop"}
FileData(p) == LET node == NodeAt(p) IN IF node.kind = "file" THEN node.data ELSE <<>>

\* Path.resolve() of an absolute path: realpath, then a stat() of the result
\* whose ELOOP is turned into RuntimeError("Symlink loop from ...")
Resolve(p) == Walk(Root, Tail(p))
ResolveRaises(p) == NodeAt(Resolve(p)).kind = "loop"

\* _media_root(): MEDIA_ROOT anchored to the backend root unless absolute,
\* then resolved
media_root == Resolve(IF IsAbsolute(env_media_root) THEN env_media_root
                      ELSE BackendRoot \o env_media_root)
\* root.resolve() raises RuntimeError (symlink loop at the media root)
media_root_raises == ResolveRaises(IF IsAbsolute(env_media_root) THEN env_media_root
                                   ELSE BackendRoot \o env_media_root)

\* the bytes of `data` from offset pos, at most n of them (all of them
\* when n is negative, as f.read does)
Available(data, pos, n) ==
    IF n < 0 THEN SubSeq(data, pos + 1, Len(data))
    ELSE SubSeq(data, pos + 1, Min(pos + n, Len(data)))

\* f.read(n) at offset pos of a buffered reader. On an unchanged file it
\* returns exactly the available bytes; when the file shrank after it was
\* opened, the buffer may still hold bytes the file no longer has, so any
\* length between the two is possible.
ReadResults(snap, cur, pos, n) ==
    LET lo == Min(Len(Available(cur, pos, n)), Len(Available(snap, pos, n)))
        hi == Len(Available(snap, pos, n))
    IN {SubSeq(snap, pos + 1, pos + k) : k \in lo..hi}

\* to_read = min(chunk_size, remaining)
ToReadWholeChunk(csize, rem) == csize

ToRead(csize, rem) == Min(csize, rem)

\* the state of f after the `with path.open("rb") as f:` block is left,
\* by how it is left: "exhausted" (remaining reached 0), "eof" (break on an
\* empty read), "error" (f.read raised), "abandoned" (GeneratorExit at yield)
WithExitLeaky(how) == IF how \in {"error", "abandoned"} THEN "open" ELSE "closed"

WithExit(how) == "closed"

RECURSIVE Concat(_)
Concat(chunks) == IF chunks = <<>> THEN <<>> ELSE Head(chunks) \o Concat(Tail(chunks))

GenIdle ==
    /\ gen = [path |-> <<>>, start |-> 0, end |-> 0, chunk_size |-> 1]
    /\ gpc = "idle"
    /\ handle = "none"
    /\ snapshot = <<>>
    /\ fpos = 0
    /\ remaining = 0
    /\ out = <<>>
    /\ pulls = 0
    /\ read_closed = FALSE

\* calling _iter_file_range(...) only makes the generator object: no line of
\* its body has run, the file is not opened yet
GenCreated(path, start, end, csize) ==
    /\ gen = [path |-> path, start |-> start, end |-> end, chunk_size |-> csize]
    /\ gpc = "created"
    /\ handle = "none"
    /\ snapshot = <<>>
    /\ fpos = 0
    /\ remaining = 0
    /\ out = <<>>
    /\ pulls = 0
    /\ read_closed = FALSE

\* the loop without `if not chunk: break`: an empty chunk is yielded too
GenLoopNoBreak(snap, pos, rem, h) ==
    IF rem > 0
    THEN \E chunk \in ReadResults(snap, FileData(gen.path), pos,
                                   ToRead(gen.chunk_size, rem)) :
            /\ gpc' = "suspended"
            /\ handle' = h
            /\ fpos' = pos + Len(chunk)
            /\ remaining' = rem - Len(chunk)
            /\ out' = Append(out, chunk)
    ELSE /\ gpc' = "done"
         /\ handle' = WithExit("exhausted")
         /\ fpos' = pos
         /\ remaining' = rem
         /\ out' = out

\* the loop of the body from `while remaining > 0`, entered with buffer view
\* snap, file position pos, remaining rem and handle state h, up to the next
\* yield or to the end of the body
GenLoop(snap, pos, rem, h) ==
    IF rem > 0
    THEN \E chunk \in ReadResults(snap, FileData(gen.path), pos,
                                   ToRead(gen.chunk_size, rem)) :
            IF chunk = <<>>
            THEN \* `if not chunk: break`, the with block is left
                 /\ gpc' = "done"
                 /\ handle' = WithExit("eof")
                 /\ fpos' = pos
                 /\ remaining' = rem
                 /\ out' = out
            ELSE \* `remaining -= len(chunk); yield chunk`
                 /\ gpc' = "suspended"
                 /\ handle' = h
                 /\ fpos' = pos + Len(chunk)
                 /\ remaining' = rem - Len(chunk)
                 /\ out' = Append(out, chunk)
    ELSE \* the loop ends, the with block is left, StopIteration
         /\ gpc' = "done"
         /\ handle' = WithExit("exhausted")
         /\ fpos' = pos
         /\ remaining' = rem
         /\ out' = out

\* first next(): run the body from its start: open, seek(start),
\* remaining = end - start + 1, then the loop
GenStart ==
    /\ gpc = "created"
    /\ pulls' = pulls + 1
    /\ UNCHANGED <<gen, read_closed, fsVars, parseVars, cfgVars, engVars, sanVars, upVars, resolveVars, reqVars>>
    /\ IF ~IsFile(gen.path)
       THEN \* path.open raises: nothing was opened
            /\ gpc' = "raised"
            /\ UNCHANGED <<handle, snapshot, fpos, remaining, out>>
       ELSE IF gen.start < 0
       THEN \* f.seek(start) raises OSError: the with block is left
            /\ gpc' = "raised"
            /\ handle' = WithExit("error")
            /\ snapshot' = FileData(gen.path)
            /\ UNCHANGED <<fpos, remaining, out>>
       ELSE /\ snapshot' = FileData(gen.path)
            /\ GenLoop(FileData(gen.path), gen.start, gen.end - gen.start + 1, "open")

\* a later next(): resume after the yield
GenResume ==
    /\ gpc = "suspended"
    /\ pulls' = pulls + 1
    /\ read_closed' = (read_closed \/ (remaining > 0 /\ handle # "open"))
    /\ UNCHANGED <<gen, snapshot, fsVars, parseVars, cfgVars, engVars, sanVars, upVars, resolveVars, reqVars>>
    /\ GenLoop(snapshot, fpos, remaining, handle)

\* a next() in which f.read raises OSError (in the first next() after the
\* file was opened): the with block is left by the exception, which reaches
\* the consumer
GenReadError ==
    /\ \/ gpc = "suspended" /\ remaining > 0 /\ UNCHANGED <<snapshot, remaining, fpos>>
       \/ /\ gpc = "created" /\ IsFile(gen.path) /\ gen.start >= 0
          /\ gen.end - gen.start + 1 > 0
          /\ snapshot' = FileData(gen.path)
          /\ remaining' = gen.end - gen.start + 1
          /\ fpos' = gen.start
    /\ pulls' = pulls + 1
    /\ read_closed' = (read_closed \/ (gpc = "suspended" /\ handle # "open"))
    /\ gpc' = "raised"
    /\ handle' = WithExit("error")
    /\ UNCHANGED <<gen, out, fsVars, parseVars, cfgVars, engVars, sanVars, upVars, resolveVars, reqVars>>

\* the consumer abandons the sequence: generator.close(). Before the first
\* next() nothing runs; at a yield, GeneratorExit leaves the with block.
GenClose ==
    /\ gpc \in {"created", "suspended"}
    /\ gpc' = "closed"
    /\ handle' = IF gpc = "suspended" THEN WithExit("abandoned") ELSE handle
    /\ UNCHANGED <<gen, snapshot, fpos, remaining, out, pulls, read_closed,
                   fsVars, parseVars, cfgVars, engVars, sanVars, upVars, resolveVars, reqVars>>

\* the environment shrinks the file while it is streamed
Truncate ==
    /\ gpc \in {"created", "suspended"}
    /\ IsFile(gen.path)
    /\ LET place == RealPath(gen.path)
           data == FileData(gen.path)
       IN \E n \in 0..(Len(data) - 1) :
             fs' = [fs EXCEPT ![place] = File(SubSeq(data, 1, n))]
    /\ modified' = TRUE
    /\ UNCHANGED <<genVars, parseVars, cfgVars, engVars, sanVars, upVars, resolveVars, reqVars>>

(***************************************************************************)
(* _json_404 and _resolve_song_media_path                                  *)
(***************************************************************************)
DefaultMediaRoot == <<"media">>             \* os.getenv("MEDIA_ROOT", "media")

\* _json_404(detail): the HTTPException it raises
json_404(detail) ==
    [kind |-> "http_error", status |-> 404,
     detail |-> [error |-> "not_found", message |-> detail]]

Returned(path) == [kind |-> "path", path |-> path]

\* an exception that is not an HTTPException, by its class name
Raised(exc) == [kind |-> "exception", exc |-> exc]

\* the detail passed to _json_404 where stream_song and the resolver give
\* up on the file, whatever the place that gives up
FileMissingDetail(site) == "File missing on server."

\* a fallback search that prefers the later candidate
FallbackLastWins(fallbacks, candidate) ==
    LET ok(p) == RelativeTo(p, Resolve(BackendRoot)) /\ IsFile(p)
    IN IF Len(fallbacks) >= 2 /\ ok(fallbacks[2]) THEN fallbacks[2]
       ELSE IF Len(fallbacks) >= 1 /\ ok(fallbacks[1]) THEN fallbacks[1]
       ELSE candidate

\* the fallback loop: the first fallback under the backend root that is a
\* regular file, else the primary candidate
RECURSIVE FirstFallback(_, _)
FirstFallback(fallbacks, candidate) ==
    IF fallbacks = <<>> THEN candidate
    ELSE IF ~RelativeTo(Head(fallbacks), Resolve(BackendRoot))
         THEN FirstFallback(Tail(fallbacks), candidate)
    ELSE IF IsFile(Head(fallbacks)) THEN Head(fallbacks)
    ELSE FirstFallback(Tail(fallbacks), candidate)

resolve_fallback_on_traversal(name) ==
    IF name = <<>> THEN json_404("File missing on server.")
    ELSE LET raw == PathOf(name)
             candidate == Resolve(Join(media_root, raw))
             fallbacks == <<Resolve(BackendRoot \o <<"media">> \o raw),
                            Resolve(BackendRoot \o raw)>>
         IN IF IsAbsolute(raw) THEN Returned(raw)
            ELSE IF media_root_raises THEN Raised("RuntimeError")
            ELSE IF ResolveRaises(Join(media_root, raw)) THEN Raised("RuntimeError")
            ELSE IF RelativeTo(candidate, media_root) /\ IsFile(candidate)
                 THEN Returned(candidate)
            ELSE IF \/ ResolveRaises(BackendRoot \o <<"media">> \o raw)
                    \/ ResolveRaises(BackendRoot \o raw)
                 THEN Raised("RuntimeError")
            ELSE IF FirstFallback(fallbacks, candidate) # candidate
                 THEN Returned(FirstFallback(fallbacks, candidate))
            ELSE IF ~RelativeTo(candidate, media_root)
                 THEN json_404("File missing on server.")
            ELSE Returned(candidate)

\* _resolve_song_media_path(song_filename): the returned path, the
\* HTTPException of _json_404, or the RuntimeError of a resolve() that met
\* a symlink loop
resolve_song_media_path(name) ==
    IF name = <<>> THEN json_404(FileMissingDetail("empty_name"))
    ELSE LET raw == PathOf(name)
             candidate == Resolve(Join(media_root, raw))
             fallbacks == <<Resolve(BackendRoot \o <<"media">> \o raw),
                            Resolve(BackendRoot \o raw)>>
         IN IF IsAbsolute(raw) THEN Returned(raw)
            ELSE IF media_root_raises THEN Raised("RuntimeError")
            ELSE IF ResolveRaises(Join(media_root, raw)) THEN Raised("RuntimeError")
            ELSE IF ~RelativeTo(candidate, media_root)
                 THEN json_404(FileMissingDetail("traversal"))
            ELSE IF IsFile(candidate) THEN Returned(candidate)
            ELSE IF \/ ResolveRaises(BackendRoot \o <<"media">> \o raw)
                    \/ ResolveRaises(BackendRoot \o raw)
                 THEN Raised("RuntimeError")
            ELSE Returned(FirstFallback(fallbacks, candidate))

NoResult == [kind |-> "none"]
NoResponse == [kind |-> "none"]

\* no call of _sanitize_filename, no upload request
SanIdle == san = [pc |-> "idle", name |-> <<>>, result |-> <<>>, again |-> <<>>]
NoUpload == [pc |-> "idle", filename |-> <<>>, content_type |-> <<>>, content |-> <<>>,
             title |-> <<>>, artist |-> <<>>, safe_name |-> <<>>, song_id |-> 0,
             stored_filename |-> <<>>, status |-> 0, detail |-> ""]
UploadIdle == upload = NoUpload

\* db.py as imported, and nothing calling into it
EngineIdle ==
    /\ ENGINE = None
    /\ SessionLocal = None
    /\ made = [engines |-> 0, factories |-> 0]
    /\ db_config_ok = TRUE
    /\ tpc = <<>>
    /\ tlocal = <<>>

ReqIdle ==
    /\ db = <<>>
    /\ req = <<>>
    /\ resp = <<>>

ResolveIdle ==
    /\ song_filename = <<>>
    /\ resolved = NoResult
    /\ rpc = "idle"

ResolveReturn ==
    /\ rpc = "call"
    /\ resolved' = resolve_song_media_path(song_filename)
    /\ rpc' = "returned"
    /\ UNCHANGED <<song_filename, cfgVars, engVars, sanVars, upVars, fsVars, genVars, parseVars, reqVars>>

(***************************************************************************)
(* Specification SpecResolve: the resolver applied to every stored         *)
(* reference of up to MaxRefLen parts (and some absolute ones), under both *)
(* kinds of MEDIA_ROOT setting, on every filesystem with regular files at  *)
(* some of FilePaths and at most one symbolic link, which may point to     *)
(* itself, or with two links of which one points to itself.                *)
(***************************************************************************)
MediaRootSettings == {DefaultMediaRoot, <<"/", "data">>}
RefNames == {"..", ".", "a.mp3", "data", "media"}
RelativeRefs == UNION {[1..n -> RefNames] : n \in 0..MaxRefLen}
AbsoluteRefs == {<<"/", "etc", "passwd">>, <<"/", "data", "a.mp3">>,
                 <<"/", "srv", "app", "media", "a.mp3">>,
                 <<"/", "srv", "app", "..", "data", "a.mp3">>}
StoredRefs == RelativeRefs \cup AbsoluteRefs

FilePaths == {<<"/", "data", "a.mp3">>,
              <<"/", "srv", "app", "media", "a.mp3">>,
              <<"/", "srv", "app", "a.mp3">>,
              <<"/", "srv", "data", "a.mp3">>,
              <<"/", "etc", "passwd">>}
LinkPlaces == {<<"/", "data", "a.mp3">>, <<"/", "srv", "app", "media", "a.mp3">>,
               <<"/", "srv", "app", "media", "data">>}
LinkTargets == {<<"/", "etc", "passwd">>, <<"/", "srv", "data">>,
                <<"/", "srv", "app", "media", "a.mp3">>}

\* the filesystems with the regular files `files` (all holding `bytes`)
FsWith(files, bytes) ==
    [p \in FilePaths \cup LinkPlaces |-> IF p \in files THEN File(bytes) ELSE Absent]

InitResolve ==
    /\ ParseIdle
    /\ EngineIdle
    /\ SanIdle
    /\ UploadIdle
    /\ ReqIdle
    /\ GenIdle
    /\ modified = FALSE
    /\ env_media_root \in MediaRootSettings
    /\ song_filename \in StoredRefs
    /\ resolved = NoResult
    /\ rpc = "call"
    /\ \E files \in SUBSET FilePaths :
          \/ fs = FsWith(files, <<1>>)
          \/ \E l \in LinkPlaces : \E t \in LinkTargets :
                fs = [FsWith(files, <<1>>) EXCEPT ![l] = Link(t)]
          \/ \* two links: one that points to itself, and one in the media
             \* root that leads out of it
             fs = [FsWith(files, <<1>>) EXCEPT
                     ![<<"/", "srv", "app", "media", "data">>] =
                         Link(<<"/", "srv", "app", "media", "data">>),
                     ![<<"/", "srv", "app", "media", "a.mp3">>] =
                         Link(<<"/", "etc", "passwd">>)]
NextResolve == ResolveReturn
SpecResolve == InitResolve /\ [][NextResolve]_vars

(***************************************************************************)
(* _sanitize_filename                                                      *)
(***************************************************************************)
SafeChars == {"A", "B", "C", "D", "E", "F", "G", "H", "I", "J", "K", "L", "M",
              "N", "O", "P", "Q", "R", "S", "T", "U", "V", "W", "X", "Y", "Z",
              "a", "b", "c", "d", "e", "f", "g", "h", "i", "j", "k", "l", "m",
              "n", "o", "p", "q", "r", "s", "t", "u", "v", "w", "x", "y", "z",
              "0", "1", "2", "3", "4", "5", "6", "7", "8", "9", ".", "_", "-"}

\* str.replace(old, "_") for a one-character old
RECURSIVE ReplaceChar(_, _)
ReplaceChar(text, old) ==
    IF text = <<>> THEN <<>>
    ELSE <<IF Head(text) = old THEN "_" ELSE Head(text)>> \o ReplaceChar(Tail(text), old)

\* a substitution without the "+": one "_" for each character outside the class
RECURSIVE SubUnsafeEach(_)
SubUnsafeEach(text) ==
    IF text = <<>> THEN <<>>
    ELSE <<IF Head(text) \in SafeChars THEN Head(text) ELSE "_">>
         \o SubUnsafeEach(Tail(text))

\* re.sub(r"[^A-Za-z0-9._-]+", "_", text): every maximal run of characters
\* outside the class becomes one "_"
RECURSIVE SubUnsafeRuns(_)
SubUnsafeRuns(text) ==
    IF text = <<>> THEN <<>>
    ELSE IF Head(text) \in SafeChars THEN <<Head(text)>> \o SubUnsafeRuns(Tail(text))
    ELSE IF Len(text) >= 2 /\ text[2] \notin SafeChars THEN SubUnsafeRuns(Tail(text))
    ELSE <<"_">> \o SubUnsafeRuns(Tail(text))

DefaultUploadName == <<"u", "p", "l", "o", "a", "d", ".", "m", "p", "3">>

\* a sanitizer without `or "upload.mp3"`
sanitize_no_default(name) ==
    SubUnsafeRuns(ReplaceChar(ReplaceChar(Strip(name), "\\"), "/"))

sanitize_filename(name) ==
    LET replaced == ReplaceChar(ReplaceChar(Strip(name), "\\"), "/")
        cleaned == SubUnsafeRuns(replaced)
    IN IF cleaned = <<>> THEN DefaultUploadName ELSE cleaned

(***************************************************************************)
(* Specification SpecSanitize: _sanitize_filename applied to every name of *)
(* up to MaxNameLen characters over SanChars, and once more to its result. *)
(***************************************************************************)
\* (the whitespace is the space, \n and U+00A0)
SanChars == {"a", "7", ".", "_", "-", " ", "\n", " ", "/", "\\", "\"", "?"}
SanNames == UNION {[1..n -> SanChars] : n \in 0..MaxNameLen}

SanitizeCall ==
    /\ san.pc = "call"
    /\ san' = [san EXCEPT !.pc = "returned", !.result = sanitize_filename(san.name)]
    /\ UNCHANGED <<parseVars, genVars, fsVars, resolveVars, cfgVars, engVars, reqVars, upVars>>

SanitizeAgain ==
    /\ san.pc = "returned"
    /\ san' = [san EXCEPT !.pc = "again", !.again = sanitize_filename(san.result)]
    /\ UNCHANGED <<parseVars, genVars, fsVars, resolveVars, cfgVars, engVars, reqVars, upVars>>

InitSanitize ==
    /\ ParseIdle
    /\ EngineIdle
    /\ ReqIdle
    /\ GenIdle
    /\ ResolveIdle
    /\ UploadIdle
    /\ env_media_root = DefaultMediaRoot
    /\ fs = <<>>
    /\ modified = FALSE
    /\ \E name \in SanNames :
          san = [pc |-> "call", name |-> name, result |-> <<>>, again |-> <<>>]
NextSanitize ==
    \/ SanitizeCall
    \/ SanitizeAgain
SpecSanitize == InitSanitize /\ [][NextSanitize]_vars

(***************************************************************************)
(* db.py: get_engine and get_db_session, run by concurrent threads (sync   *)
(* route handlers run in the server's thread pool, and get_engine takes no *)
(* lock). There is one step per read or write of a module global; an       *)
(* assignment `G = f(...)` is two steps, the call, whose result the thread *)
(* holds in tlocal, and the store into G.                                  *)
(***************************************************************************)
Threads == 1..NumThreads

\* a thread enters get_db_session, which calls get_engine()
CallGetDbSession(t) ==
    /\ tpc[t] = "idle"
    /\ tpc' = [tpc EXCEPT ![t] = "test"]
    /\ UNCHANGED <<ENGINE, SessionLocal, made, db_config_ok, tlocal>>

\* `if _ENGINE is None:`
TestEngine(t) ==
    /\ tpc[t] = "test"
    /\ tpc' = [tpc EXCEPT ![t] = IF ENGINE = None THEN "build" ELSE "return"]
    /\ UNCHANGED <<ENGINE, SessionLocal, made, db_config_ok, tlocal>>

\* `url = _build_database_url()`, which raises RuntimeError when the
\* configuration is missing
BuildUrl(t) ==
    /\ tpc[t] = "build"
    /\ tpc' = [tpc EXCEPT ![t] = IF db_config_ok THEN "create" ELSE "runtime_error"]
    /\ UNCHANGED <<ENGINE, SessionLocal, made, db_config_ok, tlocal>>

\* `create_engine(url, pool_pre_ping=True)`, the right-hand side of line 155
CreateEngine(t) ==
    /\ tpc[t] = "create"
    /\ tlocal' = [tlocal EXCEPT ![t] = <<"Engine", made.engines + 1>>]
    /\ made' = [made EXCEPT !.engines = @ + 1]
    /\ tpc' = [tpc EXCEPT ![t] = "store_engine"]
    /\ UNCHANGED <<ENGINE, SessionLocal, db_config_ok>>

\* `_ENGINE = ...`, the store of line 155
StoreEngine(t) ==
    /\ tpc[t] = "store_engine"
    /\ ENGINE' = tlocal[t]
    /\ tpc' = [tpc EXCEPT ![t] = "make_sessions"]
    /\ UNCHANGED <<SessionLocal, made, db_config_ok, tlocal>>

\* `sessionmaker(bind=_ENGINE, ...)`, the right-hand side of line 156: the
\* global _ENGINE is read as it is now
MakeSessions(t) ==
    /\ tpc[t] = "make_sessions"
    /\ tlocal' = [tlocal EXCEPT ![t] = <<"sessionmaker", ENGINE>>]
    /\ made' = [made EXCEPT !.factories = @ + 1]
    /\ tpc' = [tpc EXCEPT ![t] = "store_sessions"]
    /\ UNCHANGED <<ENGINE, SessionLocal, db_config_ok>>

\* `_SessionLocal = ...`, the store of line 156
StoreSessionLocal(t) ==
    /\ tpc[t] = "store_sessions"
    /\ SessionLocal' = tlocal[t]
    /\ tpc' = [tpc EXCEPT ![t] = "return"]
    /\ UNCHANGED <<ENGINE, made, db_config_ok, tlocal>>

\* `return _ENGINE`: back in get_db_session
ReturnEngine(t) ==
    /\ tpc[t] = "return"
    /\ tpc' = [tpc EXCEPT ![t] = "assert"]
    /\ UNCHANGED <<ENGINE, SessionLocal, made, db_config_ok, tlocal>>

\* `assert _SessionLocal is not None`
AssertSessionLocal(t) ==
    /\ tpc[t] = "assert"
    /\ tpc' = [tpc EXCEPT ![t] = IF SessionLocal # None THEN "open"
                                 ELSE "assertion_error"]
    /\ UNCHANGED <<ENGINE, SessionLocal, made, db_config_ok, tlocal>>

\* `db = _SessionLocal()`
OpenSession(t) ==
    /\ tpc[t] = "open"
    /\ tpc' = [tpc EXCEPT ![t] = IF SessionLocal # None THEN "session" ELSE "type_error"]
    /\ UNCHANGED <<ENGINE, SessionLocal, made, db_config_ok, tlocal>>

\* one step of thread t inside get_engine or the head of get_db_session
\* (db.py lines 149-175)
GetDbSessionStep(t) ==
    /\ \/ TestEngine(t)
       \/ BuildUrl(t)
       \/ CreateEngine(t)
       \/ StoreEngine(t)
       \/ MakeSessions(t)
       \/ StoreSessionLocal(t)
       \/ ReturnEngine(t)
       \/ AssertSessionLocal(t)
       \/ OpenSession(t)
    /\ UNCHANGED <<parseVars, genVars, fsVars, resolveVars, cfgVars, reqVars,
                   sanVars, upVars>>

\* an exception that left get_db_session before the session was made, by
\* the place the thread stopped at
SessionErrors == {"runtime_error", "assertion_error", "type_error"}
ExceptionAt(pc) ==
    IF pc = "runtime_error" THEN "RuntimeError"
    ELSE IF pc = "assertion_error" THEN "AssertionError"
    ELSE "TypeError"

(***************************************************************************)
(* Specification SpecEngine: NumThreads threads call get_db_session while  *)
(* the engine is not initialized.                                          *)
(***************************************************************************)
InitEngine ==
    /\ ParseIdle
    /\ ReqIdle
    /\ GenIdle
    /\ ResolveIdle
    /\ SanIdle
    /\ UploadIdle
    /\ env_media_root = DefaultMediaRoot
    /\ fs = <<>>
    /\ modified = FALSE
    /\ ENGINE = None
    /\ SessionLocal = None
    /\ made = [engines |-> 0, factories |-> 0]
    /\ db_config_ok \in BOOLEAN
    /\ tpc = [t \in Threads |-> "idle"]
    /\ tlocal = [t \in Threads |-> None]
NextEngine ==
    \E t \in Threads :
        \/ /\ CallGetDbSession(t)
           /\ UNCHANGED <<parseVars, genVars, fsVars, resolveVars, cfgVars, reqVars,
                          sanVars, upVars>>
        \/ GetDbSessionStep(t)
SpecEngine == InitEngine /\ [][NextEngine]_vars

(***************************************************************************)
(* stream_song                                                             *)
(***************************************************************************)
DefaultChunkSize == 1048576     \* chunk_size: int = 1024 * 1024

\* what a statement of a database session, or its commit, can end in: no
\* exception, an SQLAlchemyError, or an exception of a subclass of it
SessionFaults == {"ok", "SQLAlchemyError", "OperationalError"}

\* the HTTPException(500) raised when the songs table cannot be read, exc
\* being the class name of the exception caught by
\* `except (RuntimeError, SQLAlchemyError)`
DbError(exc) ==
    [kind |-> "http_error", status |-> 500,
     detail |-> "Backend database error while loading song metadata. "
                \o "Verify DATABASE_URL or POSTGRES_* env vars are configured for the backend. "
                \o "(" \o exc \o ")"]

\* A Song instance as the ORM hands it out. state is "none" (no instance),
\* "persistent" (loaded by a session that is open), "expired" (its session
\* has committed: the sessionmaker of db.py line 156 leaves
\* expire_on_commit at its default, so db.commit() at line 178 expires
\* every instance of the session; or it has rolled back: db.rollback() at
\* line 180 expires them whatever the setting) or "expired_detached"
\* (db.close() at line 183 has then removed it from its session).
NoSong == [row |-> <<>>, state |-> "none"]
LoadedSong(row) == [row |-> row, state |-> "persistent"]
AfterCommit(song) == [song EXCEPT !.state = "expired"]
AfterRollback(song) == [song EXCEPT !.state = "expired"]
AfterClose(song) ==
    [song EXCEPT !.state = IF @ = "expired" THEN "expired_detached" ELSE "detached"]

\* reading a column attribute of an expired instance reloads it through
\* the instance's session; an instance that has none raises
\* DetachedInstanceError (a subclass of SQLAlchemyError)
AttrRaises(song) == song.state = "expired_detached"

\* the HTTPException(500) raised when path resolution raises anything but
\* an HTTPException
StreamSetupFailed ==
    [kind |-> "http_error", status |-> 500,
     detail |-> [error |-> "stream_setup_failed",
                 message |-> "Failed to resolve media path."]]

BaseHeaders(title) ==
    [h \in {"Accept-Ranges", "Content-Disposition"} |->
        IF h = "Accept-Ranges" THEN <<"b", "y", "t", "e", "s">>
        ELSE <<"i", "n", "l", "i", "n", "e", ";", " ", "f", "i", "l", "e", "n", "a", "m", "e", "=", "\"">> \o sanitize_filename(title)
             \o <<".", "m", "p", "3", "\"">>]

WithHeader(headers, name, value) ==
    [h \in DOMAIN headers \cup {name} |-> IF h = name THEN value ELSE headers[h]]

\* f"bytes {start}-{end}/{file_size}"
ContentRange(start, end, fsz) ==
    <<"b", "y", "t", "e", "s", " ">> \o IntStr(start) \o <<"-">> \o IntStr(end) \o <<"/">> \o IntStr(fsz)

\* a StreamingResponse over _iter_file_range(path, start, end): the
\* generator object is made with these arguments and not started
Streaming(status, headers, path, start, end) ==
    [kind |-> "stream", status |-> status, headers |-> headers,
     media_type |-> "audio/mpeg",
     body |-> [path |-> path, start |-> start, end |-> end,
               chunk_size |-> DefaultChunkSize]]

\* the tail of stream_song, from the parsed range to the response
RangeResponse(br, path, fsz, title) ==
    IF Truthy(br)
    THEN Streaming(206,
                   WithHeader(WithHeader(BaseHeaders(title), "Content-Range",
                                         ContentRange(br[1], br[2], fsz)),
                              "Content-Length", IntStr(br[2] - br[1] + 1)),
                   path, br[1], br[2])
    ELSE Streaming(200, WithHeader(BaseHeaders(title), "Content-Length", IntStr(fsz)),
                   path, 0, fsz - 1)

StreamResponse(hdr, path, fsz, title) ==
    RangeResponse(parse_range_header(hdr, fsz), path, fsz, title)

\* lines 383-441, what stream_song reads and decides after the database
\* session and before it builds the response:
\* [resp: an error response or NoResponse, filename, resolved, path, size].
\* song is the instance the session loaded. When the read of song.filename
\* at line 390 raises, `except Exception` (line 394) catches it, and the
\* arguments of its logger.exception call read song.filename again (line
\* 399): that second exception leaves the handler.
StreamSetup(song, stat_ok) ==
    LET none == [resp |-> NoResponse, filename |-> <<>>, resolved |-> NoResult,
                 path |-> <<>>, size |-> 0]
    IN IF media_root_raises            \* `media_root = _media_root()`, not in a try
       THEN [none EXCEPT !.resp = Raised("RuntimeError")]
       ELSE IF AttrRaises(song)
       THEN [none EXCEPT !.resp = Raised("DetachedInstanceError")]
       ELSE LET name == song.row.filename
                r == resolve_song_media_path(name)
                found == [none EXCEPT !.filename = name, !.resolved = r]
            IN IF r.kind = "http_error"
               THEN [found EXCEPT !.resp = r]      \* `except HTTPException: raise`
               ELSE IF r.kind = "exception"        \* `except Exception`
                    THEN [found EXCEPT !.resp = StreamSetupFailed]
               ELSE IF ~IsFile(r.path)
                    THEN [found EXCEPT !.resp = json_404(FileMissingDetail("not_file"))]
               ELSE IF ~stat_ok
                    THEN [found EXCEPT !.resp = json_404(FileMissingDetail("stat_failed"))]
               ELSE IF Len(FileData(r.path)) <= 0
                    THEN [found EXCEPT !.resp = json_404(FileMissingDetail("empty_file")),
                                       !.size = Len(FileData(r.path))]
               ELSE [found EXCEPT !.path = r.path, !.size = Len(FileData(r.path))]

\* the requests and worlds enumerated for stream_song
SongIds == {1, 2}
\* the title starts with U+00A0
SongTitle == <<" ", "M", "y", " ", "/", "S", "o", "n", "g", "?", "!", " ">>
StreamRefs == {<<>>, <<"a.mp3">>, <<"..", "a.mp3">>}
StreamFilePaths == {<<"/", "data", "a.mp3">>,
                    <<"/", "srv", "app", "media", "a.mp3">>}

\* the filesystems with the regular files `files`, all of n bytes (the i-th
\* byte of a file is i)
StreamFs(files, n) ==
    [p \in StreamFilePaths |-> IF p \in files THEN File([i \in 1..n |-> i]) ELSE Absent]

\* the Range headers of the requests: none, a range inside the file, an
\* end below the start, a suffix
ReqHeaders ==
    {<<>>,
     BytesPrefix \o <<"0", "-", "0">>,
     BytesPrefix \o <<"2", "-", "1">>,
     BytesPrefix \o <<"-", "1">>}

\* no request
NoRequest == [song_id |-> 0, range_header |-> <<>>, song |-> NoSong, stat_ok |-> TRUE,
              upload_pc |-> "idle"]

\* what a step of a stream request leaves alone besides db
StreamFrame ==
    UNCHANGED <<db, parseVars, genVars, fsVars, resolveVars, cfgVars, sanVars, upVars,
                ENGINE, SessionLocal, made, db_config_ok, tlocal>>

\* GET /songs/{song_id}/stream arrives at thread t with a Range header of
\* `headers`, and stream_song enters `with get_db_session() as db:` (line
\* 367)
StreamCall(t, headers) ==
    /\ t \in DOMAIN req
    /\ tpc[t] = "idle"
    /\ \E id \in SongIds : \E hdr \in headers :
          req' = [req EXCEPT ![t] = [NoRequest EXCEPT !.song_id = id,
                                                      !.range_header = hdr,
                                                      !.upload_pc = upload.pc]]
    /\ tpc' = [tpc EXCEPT ![t] = "test"]
    /\ UNCHANGED resp
    /\ StreamFrame

\* get_db_session raised before it made a session: RuntimeError is caught
\* at line 373 and becomes the 500 of lines 374-381, the others leave the
\* handler
StreamSessionFailed(t) ==
    /\ t \in DOMAIN req
    /\ tpc[t] \in SessionErrors
    /\ resp' = [resp EXCEPT ![t] = IF tpc[t] = "runtime_error"
                                   THEN DbError(ExceptionAt(tpc[t]))
                                   ELSE Raised(ExceptionAt(tpc[t]))]
    /\ tpc' = [tpc EXCEPT ![t] = "done"]
    /\ UNCHANGED req
    /\ StreamFrame

\* lines 368-370 in the session: the song row is selected, fault being what
\* db.execute ends in. An exception, the HTTPException of _json_404
\* included, passes through get_db_session (rollback, close) to the except
\* clauses of lines 371-381.
StreamSelect(t) ==
    /\ t \in DOMAIN req
    /\ tpc[t] = "session"
    /\ \E fault \in SessionFaults :
          IF fault # "ok"
          THEN /\ resp' = [resp EXCEPT ![t] = DbError(fault)]
               /\ tpc' = [tpc EXCEPT ![t] = "done"]
               /\ UNCHANGED req
          ELSE IF req[t].song_id \notin DOMAIN db
          THEN /\ resp' = [resp EXCEPT ![t] = json_404("Song not found.")]
               /\ tpc' = [tpc EXCEPT ![t] = "done"]
               /\ UNCHANGED req
          ELSE /\ req' = [req EXCEPT ![t].song = LoadedSong(db[req[t].song_id])]
               /\ tpc' = [tpc EXCEPT ![t] = "commit"]
               /\ UNCHANGED resp
    /\ StreamFrame

\* the with block is left without an exception: db.commit() (db.py line
\* 178), fault being what it ends in, db.rollback() (line 180) when it
\* raised, and db.close() (line 183)
StreamCommit(t) ==
    /\ t \in DOMAIN req
    /\ tpc[t] = "commit"
    /\ \E fault \in SessionFaults :
          IF fault # "ok"
          THEN /\ resp' = [resp EXCEPT ![t] = DbError(fault)]
               /\ tpc' = [tpc EXCEPT ![t] = "done"]
               /\ req' = [req EXCEPT ![t].song = AfterClose(AfterRollback(@))]
          ELSE /\ req' = [req EXCEPT ![t].song = AfterClose(AfterCommit(@))]
               /\ tpc' = [tpc EXCEPT ![t] = "respond"]
               /\ UNCHANGED resp
    /\ StreamFrame

\* lines 383-476: the media root, the Range header, the path, the file and
\* the response; stat_ok says whether stat() of the file goes through. The
\* filesystem is read as it is at this step, which for an instance that
\* cannot be read is the one read of _media_root() at line 383.
StreamRespond(t) ==
    /\ t \in DOMAIN req
    /\ tpc[t] = "respond"
    /\ \E stat_ok \in BOOLEAN :
       \E setup \in {StreamSetup(req[t].song, stat_ok)} :
          /\ req' = [req EXCEPT ![t].stat_ok = stat_ok]
          /\ resp' = [resp EXCEPT ![t] =
                        IF setup.resp # NoResponse THEN setup.resp
                        ELSE StreamResponse(req[t].range_header, setup.path, setup.size,
                                            req[t].song.row.title)]
    /\ tpc' = [tpc EXCEPT ![t] = "done"]
    /\ StreamFrame

\* one step of the stream request of thread t after it arrived
StreamStep(t) ==
    \/ GetDbSessionStep(t)
    \/ StreamSessionFailed(t)
    \/ StreamSelect(t)
    \/ StreamCommit(t)
    \/ StreamRespond(t)

(***************************************************************************)
(* Specification Spec: two concurrent stream requests, each on a thread of *)
(* its own, against a songs table with one row and a filesystem with files *)
(* at some of StreamFilePaths, db.py being as imported. The request of the *)
(* second thread is enumerated without a Range header.                     *)
(***************************************************************************)
StreamThreads == {1, 2}

Init ==
    /\ ParseIdle
    /\ SanIdle
    /\ UploadIdle
    /\ ResolveIdle
    /\ GenIdle
    /\ modified = FALSE
    /\ ENGINE = None
    /\ SessionLocal = None
    /\ made = [engines |-> 0, factories |-> 0]
    /\ db_config_ok \in BOOLEAN
    /\ tpc = [t \in StreamThreads |-> "idle"]
    /\ tlocal = [t \in StreamThreads |-> None]
    /\ env_media_root \in MediaRootSettings
    /\ \E name \in StreamRefs : db = [id \in {1} |-> [filename |-> name, title |-> SongTitle]]
    /\ \E files \in SUBSET StreamFilePaths : \E n \in {0, MaxFileSize} :
          fs = StreamFs(files, n)
    /\ req = [t \in StreamThreads |-> NoRequest]
    /\ resp = [t \in StreamThreads |-> NoResponse]

Next ==
    \E t \in StreamThreads :
        \/ StreamCall(t, IF t = 1 THEN ReqHeaders ELSE {<<>>})
        \/ StreamStep(t)

Spec == Init /\ [][Next]_vars

(***************************************************************************)
(* _validate_mp3 and upload_song                                           *)
(***************************************************************************)
MaxFileBytesDefault == 52428800     \* _MAX_FILE_BYTES_DEFAULT = 50 * 1024 * 1024

\* str.lower() of a Latin-1 character: A-Z and the 30 upper-case letters of
\* U+00C0..U+00DE (U+00D7, the multiplication sign, is not one)
LowerChar(c) == CASE c = "A" -> "a" [] c = "B" -> "b" [] c = "C" -> "c" [] c = "D" -> "d" [] c = "E" -> "e" [] c = "F" -> "f" [] c = "G" -> "g"
                  [] c = "H" -> "h" [] c = "I" -> "i" [] c = "J" -> "j" [] c = "K" -> "k" [] c = "L" -> "l" [] c = "M" -> "m" [] c = "N" -> "n"
                  [] c = "O" -> "o" [] c = "P" -> "p" [] c = "Q" -> "q" [] c = "R" -> "r" [] c = "S" -> "s" [] c = "T" -> "t" [] c = "U" -> "u"
                  [] c = "V" -> "v" [] c = "W" -> "w" [] c = "X" -> "x" [] c = "Y" -> "y" [] c = "Z" -> "z" [] c = "À" -> "à" [] c = "Á" -> "á"
                  [] c = "Â" -> "â" [] c = "Ã" -> "ã" [] c = "Ä" -> "ä" [] c = "Å" -> "å" [] c = "Æ" -> "æ" [] c = "Ç" -> "ç" [] c = "È" -> "è"
                  [] c = "É" -> "é" [] c = "Ê" -> "ê" [] c = "Ë" -> "ë" [] c = "Ì" -> "ì" [] c = "Í" -> "í" [] c = "Î" -> "î" [] c = "Ï" -> "ï"
                  [] c = "Ð" -> "ð" [] c = "Ñ" -> "ñ" [] c = "Ò" -> "ò" [] c = "Ó" -> "ó" [] c = "Ô" -> "ô" [] c = "Õ" -> "õ" [] c = "Ö" -> "ö"
                  [] c = "Ø" -> "ø" [] c = "Ù" -> "ù" [] c = "Ú" -> "ú" [] c = "Û" -> "û" [] c = "Ü" -> "ü" [] c = "Ý" -> "ý" [] c = "Þ" -> "þ"
                  [] OTHER -> c
Lower(text) == [i \in 1..Len(text) |-> LowerChar(text[i])]

\* text.endswith(suffix), sub in text
EndsWith(text, suffix) ==
    Len(suffix) <= Len(text)
    /\ SubSeq(text, Len(text) - Len(suffix) + 1, Len(text)) = suffix
IsSubstring(sub, text) ==
    \E i \in 1..(Len(text) - Len(sub) + 1) : SubSeq(text, i, i + Len(sub) - 1) = sub

Mp3Suffix == <<".", "m", "p", "3">>
AudioMpeg == <<"a", "u", "d", "i", "o", "/", "m", "p", "e", "g">>
OctetStream == <<"a", "p", "p", "l", "i", "c", "a", "t", "i", "o", "n", "/", "o", "c", "t", "e", "t", "-", "s", "t", "r", "e", "a", "m">>

\* the magic test of _validate_mp3 on content[:10]: b"ID3", or 0xFF followed
\* by a byte whose three top bits are set
LooksLikeMp3(content) ==
    \/ Len(content) >= 3 /\ SubSeq(content, 1, 3) = <<73, 68, 51>>
    \/ Len(content) >= 2 /\ content[1] = 255 /\ (content[2] \div 32) % 8 = 7

\* _validate_mp3: the status and detail of the HTTPException it raises, or
\* status 0 with the safe name and the size
validate_mp3(filename, content_type, content, max_bytes) ==
    LET safe_name == sanitize_filename(IF filename = <<>> THEN DefaultUploadName
                                       ELSE filename)
        ctype == Lower(content_type)
        raised(status, detail) ==
            [status |-> status, detail |-> detail, safe_name |-> <<>>, size |-> 0]
    IN IF ~EndsWith(Lower(safe_name), Mp3Suffix)
       THEN raised(400, "Only .mp3 files are supported.")
       ELSE IF ctype # <<>> /\ ~IsSubstring(AudioMpeg, ctype)
                            /\ ~IsSubstring(OctetStream, ctype)
       THEN raised(400, "Invalid content type; expected audio/mpeg.")
       ELSE IF Len(content) = 0 THEN raised(400, "Empty file.")
       ELSE IF Len(content) > max_bytes THEN raised(413, "File too large.")
       ELSE IF ~LooksLikeMp3(content)
       THEN raised(400, "File does not look like a valid mp3.")
       ELSE [status |-> 0, detail |-> "", safe_name |-> safe_name, size |-> Len(content)]

\* Path(name).stem of a name without separators
LastIndex(text, c) ==
    IF Contains(text, c)
    THEN CHOOSE i \in 1..Len(text) : text[i] = c /\ \A j \in (i + 1)..Len(text) : text[j] # c
    ELSE 0
Stem(name) == LET i == LastIndex(name, ".")
              IN IF 1 < i /\ i < Len(name) THEN SubSeq(name, 1, i - 1) ELSE name

\* (title or Path(safe_name).stem).strip() or "Untitled"
FinalTitle(title, safe_name) ==
    LET t == Strip(IF title # <<>> THEN title ELSE Stem(safe_name))
    IN IF t # <<>> THEN t ELSE <<"U", "n", "t", "i", "t", "l", "e", "d">>

\* (artist or "Unknown Artist").strip() or "Unknown Artist"
UnknownArtist == <<"U", "n", "k", "n", "o", "w", "n", " ", "A", "r", "t", "i", "s", "t">>
FinalArtist(artist) ==
    LET t == Strip(IF artist # <<>> THEN artist ELSE UnknownArtist)
    IN IF t # <<>> THEN t ELSE UnknownArtist

\* (file.content_type or "audio/mpeg").lower()
StoredContentType(content_type) ==
    Lower(IF content_type # <<>> THEN content_type ELSE AudioMpeg)

\* Path(text).parts of a string: the components between "/" as path parts,
\* empty components dropped; a part is named by its characters
RECURSIVE SplitOn(_, _)
SplitOn(text, c) ==
    IF ~Contains(text, c) THEN <<text>>
    ELSE <<SubSeq(text, 1, FirstIndex(text, c) - 1)>>
         \o SplitOn(SubSeq(text, FirstIndex(text, c) + 1, Len(text)), c)
PartName(chars) == IF chars = <<".">> THEN "."
                   ELSE IF chars = <<".", ".">> THEN ".."
                   ELSE ToString(chars)
PartsOfString(text) ==
    LET comps == SelectSeq(SplitOn(text, "/"), LAMBDA c : c # <<>>)
    IN (IF text # <<>> /\ text[1] = "/" THEN <<"/">> ELSE <<>>)
       \o [i \in 1..Len(comps) |-> PartName(comps[i])]

\* stored_filename = f"{song_id}_{safe_name}": the id drawn by uuid.uuid4() is
\* formatted as characters of [0-9a-f-] that name it
StoredFilename(id, safe_name) == NatStr(id) \o <<"_">> \o safe_name

\* stored_path = media_root / stored_filename
StoredPath(root, stored_filename) == Join(root, PathOf(PartsOfString(stored_filename)))

\* the ids uuid.uuid4() draws
UploadIds == {1}

\* media_root.mkdir(parents=True, exist_ok=True) on the resolved media
\* root: "ok", or the class of the OSError it raises when the root is there
\* and is not a directory, or lies below something that is not one
MkdirOutcome(root) ==
    IF NodeHere(root).kind = "dir" THEN "ok"
    ELSE IF NodeHere(root).kind # "absent" THEN "FileExistsError"
    ELSE IF \E n \in 1..(Len(root) - 1) : NodeHere(SubSeq(root, 1, n)).kind # "dir"
                                         /\ NodeHere(SubSeq(root, 1, n)).kind # "absent"
         THEN "NotADirectoryError"
         ELSE "ok"

\* the filesystem after that mkdir went through
Mkdir(root) == IF NodeHere(root).kind = "dir" THEN fs
               ELSE [p \in DOMAIN fs \cup {root} |-> IF p = root THEN Dir ELSE fs[p]]

\* path.write_bytes(content) in the filesystem f cannot open its file: the
\* lookup of the path fails or ends at a directory
WriteFails(f, path) ==
    \/ RealPathIn(f, path) \in {ENOENT, ELOOP}
    \/ NodeHereIn(f, RealPathIn(f, path)).kind = "dir"

\* the filesystem after path.write_bytes(content) went through in f
WriteBytes(f, path, content) ==
    [p \in DOMAIN f \cup {RealPathIn(f, path)} |->
        IF p = RealPathIn(f, path) THEN File(content) ELSE f[p]]

\* the HTTPException(500) raised when the song row cannot be saved, exc
\* being the class name of the exception caught
SaveError(exc) ==
    "Backend database error while saving uploaded song metadata. "
    \o "Verify DATABASE_URL or POSTGRES_* env vars are configured for the backend. "
    \o "(" \o exc \o ")"

\* the requests enumerated for upload_song: every prefix of a frame header
\* FF E0 49 .., of an ID3 tag and of bytes that are neither
MaxUploadLen == 3     \* longest uploaded content enumerated
UploadContents ==
    {SubSeq(c, 1, n) : n \in 0..MaxUploadLen,
                       c \in {[i \in 1..MaxUploadLen |->
                                 IF i = 1 THEN 255 ELSE IF i = 2 THEN 224 ELSE 73],
                              [i \in 1..MaxUploadLen |->
                                 IF i = 1 THEN 73 ELSE IF i = 2 THEN 68 ELSE 51],
                              [i \in 1..MaxUploadLen |-> 224]}}
\* (the third name ends with U+0085)
ClientNames == {<<>>, <<".", ".", "/", "A", ".", "M", "P", "3">>,
                <<"a", " ", "b", ".", "m", "p", "3", "">>,
                <<"x", ".", "t", "x", "t">>}
ContentTypes == {<<>>, <<"A", "u", "d", "i", "o", "/", "M", "P", "E", "G", ";", "É">>,
                 <<"t", "e", "x", "t", "/", "p", "l", "a", "i", "n">>}
\* the title and artist form fields (the artist starts with U+00A0)
FormInputs == {[title |-> <<>>, artist |-> <<>>],
               [title |-> SongTitle, artist |-> <<" ", "X", "\n">>]}

\* POST /songs/upload, lines 294-303: the content is read and validated,
\* the defaults are filled in, the media root is resolved and made. A
\* request that fails here is done, with the status and detail of its
\* HTTPException or the class of the exception that escapes.
UploadPrepare ==
    /\ upload.pc = "idle"
    /\ \E filename \in ClientNames : \E content_type \in ContentTypes :
       \E content \in UploadContents : \E form \in FormInputs :
       \E max_bytes \in {MaxFileBytesDefault, 2} :     \* _max_file_bytes()
       \E v \in {validate_mp3(filename, content_type, content, max_bytes)} :
          LET at(pc, status, detail) ==
                  [pc |-> pc, filename |-> filename, content_type |-> content_type,
                   content |-> content, title |-> form.title, artist |-> form.artist,
                   safe_name |-> v.safe_name, song_id |-> 0, stored_filename |-> <<>>,
                   status |-> status, detail |-> detail]
          IN IF v.status # 0
             THEN /\ upload' = at("done", v.status, v.detail)
                  /\ UNCHANGED fs
             ELSE IF media_root_raises      \* not in a try: the exception escapes
             THEN /\ upload' = at("done", 0, "RuntimeError")
                  /\ UNCHANGED fs
             ELSE IF MkdirOutcome(media_root) # "ok"
             THEN /\ upload' = at("done", 0, MkdirOutcome(media_root))
                  /\ UNCHANGED fs
             ELSE /\ upload' = at("made_dir", 0, "")
                  /\ fs' = Mkdir(media_root)
    /\ UNCHANGED <<db, modified, req, resp, parseVars, genVars, resolveVars, cfgVars,
                   engVars, sanVars>>

\* lines 305-312: the id is drawn and the content written under the media
\* root. write_ok says whether the write of write_bytes goes through (when
\* it does not, the file may be left with any proper prefix of the content,
\* or not at all).
UploadWrite ==
    /\ upload.pc = "made_dir"
    /\ \E song_id \in UploadIds \ DOMAIN db : \E write_ok \in BOOLEAN :
       \E stored_filename \in {StoredFilename(song_id, upload.safe_name)} :
       \E stored_path \in {StoredPath(media_root, stored_filename)} :
          LET at(pc, status, detail) ==
                  [upload EXCEPT !.pc = pc, !.song_id = song_id,
                                 !.stored_filename = stored_filename,
                                 !.status = status, !.detail = detail]
          IN IF WriteFails(fs, stored_path)
             THEN /\ upload' = at("done", 500, "Failed to store file.")
                  /\ UNCHANGED fs
             ELSE IF ~write_ok
             THEN /\ upload' = at("done", 500, "Failed to store file.")
                  /\ \/ UNCHANGED fs
                     \/ \E k \in 0..(Len(upload.content) - 1) :
                           fs' = WriteBytes(fs, stored_path, SubSeq(upload.content, 1, k))
             ELSE /\ upload' = at("stored", 0, "")
                  /\ fs' = WriteBytes(fs, stored_path, upload.content)
    /\ UNCHANGED <<db, modified, req, resp, parseVars, genVars, resolveVars, cfgVars,
                   engVars, sanVars>>

\* the thread that handles the upload request
UploadThread == 1

\* lines 314-318: the upload's thread enters `with get_db_session() as db:`
UploadCallSession ==
    /\ upload.pc = "stored"
    /\ tpc[UploadThread] = "idle"
    /\ upload' = [upload EXCEPT !.pc = "saving"]
    /\ tpc' = [tpc EXCEPT ![UploadThread] = "test"]
    /\ UNCHANGED <<db, fsVars, req, resp, parseVars, genVars, resolveVars, cfgVars,
                   ENGINE, SessionLocal, made, db_config_ok, tlocal, sanVars>>

\* get_db_session raised before it made a session: RuntimeError is caught
\* at line 331 and becomes the 500 of lines 332-339, the others leave the
\* handler
UploadSessionFailed ==
    /\ upload.pc = "saving"
    /\ tpc[UploadThread] \in SessionErrors
    /\ upload' = IF tpc[UploadThread] = "runtime_error"
                 THEN [upload EXCEPT !.pc = "done", !.status = 500,
                                     !.detail = SaveError(ExceptionAt(tpc[UploadThread]))]
                 ELSE [upload EXCEPT !.pc = "done",
                                     !.detail = ExceptionAt(tpc[UploadThread])]
    /\ tpc' = [tpc EXCEPT ![UploadThread] = "done"]
    /\ UNCHANGED <<db, fsVars, req, resp, parseVars, genVars, resolveVars, cfgVars,
                   ENGINE, SessionLocal, made, db_config_ok, tlocal, sanVars>>

\* lines 319-350: the Song is made and added to the session (nothing is
\* sent to the database: autoflush is off), the with block is left and
\* db.commit() (db.py line 178) inserts the row, fault being what it ends
\* in; the response is built from the handler's locals.
UploadCommit ==
    /\ upload.pc = "saving"
    /\ tpc[UploadThread] = "session"
    /\ \E fault \in SessionFaults :
          IF fault = "ok"
          THEN /\ upload' = [upload EXCEPT !.pc = "done", !.status = 200]
               /\ db' = [id \in DOMAIN db \cup {upload.song_id} |->
                           IF id = upload.song_id
                           THEN [filename |-> PartsOfString(upload.stored_filename),
                                 title |-> FinalTitle(upload.title, upload.safe_name),
                                 artist |-> FinalArtist(upload.artist),
                                 content_type |-> StoredContentType(upload.content_type),
                                 size_bytes |-> Len(upload.content)]
                           ELSE db[id]]
          ELSE /\ upload' = [upload EXCEPT !.pc = "done", !.status = 500,
                                           !.detail = SaveError(fault)]
               /\ UNCHANGED db
    /\ tpc' = [tpc EXCEPT ![UploadThread] = "done"]
    /\ UNCHANGED <<fsVars, req, resp, parseVars, genVars, resolveVars, cfgVars,
                   ENGINE, SessionLocal, made, db_config_ok, tlocal, sanVars>>

(***************************************************************************)
(* Specification SpecUpload: one upload into an empty library, handled by  *)
(* one thread, and one stream request handled by another, which may arrive *)
(* and take its steps at any point of the upload.                          *)
(***************************************************************************)
UploadReqHeaders == {<<>>, BytesPrefix \o <<"1", "-", "2">>}

InitUpload ==
    /\ ParseIdle
    /\ ResolveIdle
    /\ GenIdle
    /\ SanIdle
    /\ UploadIdle
    /\ modified = FALSE
    /\ ENGINE = None
    /\ SessionLocal = None
    /\ made = [engines |-> 0, factories |-> 0]
    /\ db_config_ok \in BOOLEAN
    /\ tpc = [t \in {UploadThread, UploadThread + 1} |-> "idle"]
    /\ tlocal = [t \in {UploadThread, UploadThread + 1} |-> None]
    /\ db = <<>>
    /\ req = [t \in {UploadThread + 1} |-> NoRequest]
    /\ resp = [t \in {UploadThread + 1} |-> NoResponse]
    /\ env_media_root \in MediaRootSettings \cup {<<"media", "a.mp3">>}
    /\ fs = [p \in {<<"/", "srv", "app", "media", "a.mp3">>} |-> File(<<1>>)]
NextUpload ==
    \/ UploadPrepare
    \/ UploadWrite
    \/ UploadCallSession
    \/ GetDbSessionStep(UploadThread)
    \/ UploadSessionFailed
    \/ UploadCommit
    \/ \E t \in DOMAIN req :
          \/ StreamCall(t, UploadReqHeaders)
          \/ StreamStep(t)
SpecUpload == InitUpload /\ [][NextUpload]_vars

(***************************************************************************)
(* Specification SpecParse.                                                *)
(***************************************************************************)
InitParse ==
    /\ ParseStart
    /\ EngineIdle
    /\ SanIdle
    /\ UploadIdle
    /\ ReqIdle
    /\ GenIdle
    /\ ResolveIdle
    /\ env_media_root = DefaultMediaRoot
    /\ fs = <<>>
    /\ modified = FALSE
NextParse == ParseReturn /\ UNCHANGED <<fsVars, genVars, cfgVars, engVars, sanVars, upVars, resolveVars, reqVars>>
SpecParse == InitParse /\ [][NextParse]_vars

(***************************************************************************)
(* Specification SpecIter: one generator over one file, for every file     *)
(* content up to MaxFileSize, every range inside it and every chunk size   *)
(* up to MaxChunk; the consumer pulls or abandons, the file may shrink.    *)
(***************************************************************************)
IterPath == <<"/", "srv", "app", "media", "a.mp3">>

InitIter ==
    /\ ParseIdle
    /\ EngineIdle
    /\ SanIdle
    /\ UploadIdle
    /\ ReqIdle
    /\ ResolveIdle
    /\ env_media_root = DefaultMediaRoot
    /\ modified = FALSE
    /\ \E bytes \in Contents :
          /\ Len(bytes) >= 1
          /\ fs = [p \in {IterPath} |-> File(bytes)]
          /\ \E start \in 0..(Len(bytes) - 1) :
                \E end \in start..(Len(bytes) - 1) :
                   \E csize \in 1..MaxChunk :
                      GenCreated(IterPath, start, end, csize)
NextIter ==
    \/ GenStart
    \/ GenResume
    \/ GenReadError
    \/ GenClose
    \/ Truncate
SpecIter == InitIter /\ [][NextIter]_vars

Nums == 0..MaxNum
SignedNums == (0 - MaxNum)..MaxNum

\* the headers the claims speak of, formatted from their numbers
SuffixHeader == [n \in SignedNums |-> BytesPrefix \o <<"-">> \o IntStr(n)]
OpenHeader == [s \in Nums |-> BytesPrefix \o NatStr(s) \o <<"-">>]
ClosedHeader == [s \in Nums |->
                   [e \in SignedNums |-> BytesPrefix \o NatStr(s) \o <<"-">> \o IntStr(e)]]

(***************************************************************************)
(* Claims about _iter_file_range (checked under SpecIter).                 *)
(***************************************************************************)
GenTerminal == gpc \in {"done", "raised", "closed"}

\* C1: on a file that is not modified during iteration, for every
\* 0 <= start <= end <= n-1 and chunk size C >= 1, every yielded chunk has
\* between 1 and C bytes, the chunks yielded so far are the file's bytes from
\* start on, in order, and when the sequence is exhausted their
\* concatenation is exactly bytes start..end.
C1_ChunksReassemble ==
    (gpc \in {"suspended", "done", "raised", "closed"} /\ ~modified) =>
        LET data == FileData(gen.path)
            got == Concat(out)
        IN /\ \A i \in 1..Len(out) : Len(out[i]) >= 1 /\ Len(out[i]) <= gen.chunk_size
           /\ got = SubSeq(data, gen.start + 1, gen.start + Len(got))
           /\ Len(got) <= gen.end - gen.start + 1
           /\ gpc = "done" => got = SubSeq(data, gen.start + 1, gen.end + 1)

\* a range of 3 bytes was delivered as a chunk of 2 and a chunk of 1
C1_Witness ==
    /\ gpc = "done"
    /\ ~modified
    /\ gen.chunk_size = 2
    /\ Len(out) = 2
    /\ Len(out[1]) = 2 /\ Len(out[2]) = 1
    /\ out[1] # <<out[2][1], out[2][1]>>

\* C4: whenever the sequence has ended (exhausted, empty read, read error,
\* abandoned by the consumer) the file handle is not open, and it is closed
\* if the file had been opened; a closed handle is never read again: once
\* closed it stays closed and neither the position nor the output moves.
C4_HandleReleased ==
    /\ [](GenTerminal => handle # "open")
    /\ []((GenTerminal /\ (out # <<>> \/ gpc = "done")) => handle = "closed")
    /\ [](~read_closed)
    /\ [][handle = "closed" => (handle' = "closed" /\ fpos' = fpos /\ out' = out)]_vars

\* the consumer abandoned the sequence after one chunk, with bytes left
C4_Witness ==
    /\ gpc = "closed"
    /\ Len(out) = 1
    /\ remaining > 0
    /\ handle = "closed"

\* C14 as claimed: for every file state, a shrinking file included, the
\* sequence ends after at most end-start+1 pulls, never yields more than
\* end-start+1 bytes, and a read that returns no data ends it normally with
\* fewer bytes than the range length delivered.
C14_Original ==
    LET len == gen.end - gen.start + 1
    IN /\ gpc = "done" => pulls <= len
       /\ Len(Concat(out)) <= len
       /\ (gpc = "done" /\ remaining > 0) => Len(Concat(out)) < len

\* C14 as amended: for every file state, a shrinking file included, at most
\* end-start+1 pulls yield a chunk, each of at least one byte, and the
\* sequence has ended at the latest with pull number end-start+2 (the pull
\* that finds it exhausted); it never yields more than end-start+1 bytes,
\* and a read that returns no data ends it normally, the handle closed,
\* with fewer bytes than the range length delivered.
C14_BoundedSequence ==
    LET len == gen.end - gen.start + 1
        got == Len(Concat(out))
    IN gpc # "idle" =>
         /\ \A i \in 1..Len(out) : Len(out[i]) >= 1
         /\ Len(out) <= len
         /\ got <= len
         /\ pulls <= len + 1
         /\ gpc = "suspended" => (pulls = Len(out) /\ got + remaining = len)
         /\ gpc = "done" => (pulls = Len(out) + 1 /\ got + remaining = len)
         /\ (gpc = "done" /\ remaining > 0) => (got < len /\ handle = "closed")

\* the file shrank after the first chunk; the next read returned no data
\* and the sequence ended with bytes of the range undelivered
C14_Witness ==
    /\ gpc = "done"
    /\ modified
    /\ Len(out) = 1
    /\ pulls = 2
    /\ remaining > 0
    /\ Len(Concat(out)) < gen.end - gen.start + 1

(***************************************************************************)
(* Claims about _sanitize_filename (checked under SpecSanitize).           *)
(***************************************************************************)
\* C15: for every input the result of _sanitize_filename is non-empty and
\* has only characters of [A-Za-z0-9._-], so no "/", "\", whitespace, double
\* quote or control character; sanitizing the result again returns it
\* unchanged.
C15_SafeAndIdempotent ==
    /\ san.pc \in {"returned", "again"} =>
          /\ san.result # <<>>
          /\ \A i \in 1..Len(san.result) :
                /\ san.result[i] \in SafeChars
                /\ san.result[i] \notin {"/", "\\", "\""} \cup Whitespace
    /\ san.pc = "again" => san.again = san.result

\* " /?" and a newline: nothing but whitespace and unsafe characters; the
\* result is "__", and so is the result of sanitizing that
C15_Witness ==
    /\ san.pc = "again"
    /\ san.name = <<" ", "/", "?", "\n">>
    /\ san.result = <<"_", "_">>
    /\ san.again = <<"_", "_">>

\* the characters of the result named by the positions of the stripped
\* input t that survive: a safe character, a separator, or the last
\* character of a run of other unsafe characters
Survivors(t) ==
    {i \in 1..Len(t) :
        \/ t[i] \in SafeChars \cup {"/", "\\"}
        \/ i = Len(t)
        \/ t[i + 1] \in SafeChars \cup {"/", "\\"}}

\* C16 as claimed: the result is the stripped input with every single
\* character outside [A-Za-z0-9._-] replaced by one "_" (same length as the
\* stripped input), and the fixed default name exactly when that is empty.
C16_Original ==
    san.pc \in {"returned", "again"} =>
        LET t == Strip(san.name)
        IN san.result =
              IF t = <<>> THEN <<"u", "p", "l", "o", "a", "d", ".", "m", "p", "3">>
              ELSE [i \in 1..Len(t) |-> IF t[i] \in SafeChars THEN t[i] ELSE "_"]

\* C16 as amended: the result is the stripped input with every "\" and "/"
\* replaced by one "_" each and every maximal run of other characters
\* outside [A-Za-z0-9._-] replaced by a single "_" (so it is never longer
\* than the stripped input, and shorter when such a run has two characters
\* or more), and the fixed default name exactly when that is empty.
C16_RunsCollapse ==
    san.pc \in {"returned", "again"} =>
        LET t == Strip(san.name)
            keep == Survivors(t)
            place(i) == Cardinality({j \in keep : j <= i})
        IN IF t = <<>>
           THEN san.result = <<"u", "p", "l", "o", "a", "d", ".", "m", "p", "3">>
           ELSE /\ Len(san.result) = Cardinality(keep)
                /\ Len(san.result) <= Len(t)
                /\ \A i \in keep :
                      san.result[place(i)] = IF t[i] \in SafeChars THEN t[i] ELSE "_"

\* "a??/" : the run "??" became one "_", the separator another
C16_Witness ==
    /\ san.pc = "returned"
    /\ san.name = <<"a", "?", "?", "/">>
    /\ san.result = <<"a", "_", "_">>

(***************************************************************************)
(* Claims about _resolve_song_media_path (checked under SpecResolve).      *)
(***************************************************************************)
\* p lies inside root (p's real location is root or below it)
Inside(p, root) == IsPrefix(Resolve(root), Resolve(p))
InsideARoot(p) == Inside(p, media_root) \/ Inside(p, BackendRoot)

\* no symbolic link of the filesystem leads round in a loop
NoLinkLoop == \A l \in DOMAIN fs : IsLink(l) => RealPath(l) # ELOOP

\* C5 as claimed: for every stored reference, relative or absolute, a
\* returned path lies inside mediaRoot or inside backendRoot.
C5_Original ==
    (rpc = "returned" /\ resolved.kind = "path") => InsideARoot(resolved.path)

\* C5 as amended: for every relative stored reference a returned path
\* names a place below mediaRoot or below backendRoot, and (no symbolic link
\* being a loop) what it leads to is inside one of them as well; an absolute
\* stored reference is returned as it is, wherever it points.
C5_RelativeStaysInside ==
    (rpc = "returned" /\ resolved.kind = "path") =>
        IF IsAbsolute(PathOf(song_filename))
        THEN resolved.path = PathOf(song_filename)
        ELSE /\ \/ IsPrefix(media_root, resolved.path)
                \/ IsPrefix(Resolve(BackendRoot), resolved.path)
             /\ NoLinkLoop => InsideARoot(resolved.path)

\* "../data/a.mp3" under MEDIA_ROOT=/data stays inside the media root; the
\* primary candidate and the first fallback are missing, the second
\* fallback is an existing file outside the backend root and is skipped
C5_Witness ==
    /\ rpc = "returned"
    /\ env_media_root = <<"/", "data">>
    /\ song_filename = <<"..", "data", "a.mp3">>
    /\ IsFile(<<"/", "srv", "data", "a.mp3">>)
    /\ ~IsFile(<<"/", "srv", "app", "data", "a.mp3">>)
    /\ resolved = Returned(<<"/", "data", "a.mp3">>)

\* C6: a relative stored reference whose join with mediaRoot normalizes to
\* a path outside mediaRoot gets the FileMissing 404 and no path, also when
\* a fallback candidate under backendRoot is a regular file.
C6_TraversalRejected ==
    (rpc = "returned" /\ ~IsAbsolute(PathOf(song_filename)) /\ song_filename # <<>>
       /\ ~media_root_raises /\ ~ResolveRaises(media_root \o PathOf(song_filename))
       /\ ~IsPrefix(media_root, Resolve(media_root \o PathOf(song_filename)))) =>
        resolved = json_404("File missing on server.")

\* "../a.mp3" under the default media root: rejected although
\* backendRoot/media/../a.mp3 is an existing regular file
C6_Witness ==
    /\ rpc = "returned"
    /\ env_media_root = DefaultMediaRoot
    /\ song_filename = <<"..", "a.mp3">>
    /\ IsFile(<<"/", "srv", "app", "a.mp3">>)
    /\ resolved.kind = "http_error"

\* C13 as claimed: for a relative stored reference whose primary candidate
\* (mediaRoot joined with the reference, normalized) is inside mediaRoot,
\* the resolver returns the primary candidate if it is a regular file;
\* otherwise the first of backendRoot/media/reference, backendRoot/reference
\* that is inside backendRoot and a regular file; otherwise the primary
\* candidate, and it never signals not-found itself.
C13_Original ==
    LET raw == PathOf(song_filename)
        primary == Resolve(media_root \o raw)
        fb1 == Resolve(BackendRoot \o <<"media">> \o raw)
        fb2 == Resolve(BackendRoot \o raw)
        usable(p) == IsPrefix(Resolve(BackendRoot), p) /\ IsFile(p)
    IN (rpc = "returned" /\ song_filename # <<>> /\ ~IsAbsolute(raw)
          /\ ~media_root_raises /\ ~ResolveRaises(media_root \o raw)
          /\ IsPrefix(media_root, primary)) =>
         /\ resolved.kind = "path"
         /\ resolved.path = IF IsFile(primary) THEN primary
                            ELSE IF usable(fb1) THEN fb1
                            ELSE IF usable(fb2) THEN fb2
                            ELSE primary

\* C13 as amended: the same, except that when the primary candidate is not
\* a regular file and the normalization of one of the two fallback
\* candidates fails on a symbolic link loop, the resolver returns nothing
\* and raises that failure (a RuntimeError), even when the other fallback
\* candidate is a regular file.
C13_FallbackOrder ==
    LET raw == PathOf(song_filename)
        primary == Resolve(media_root \o raw)
        fb1 == Resolve(BackendRoot \o <<"media">> \o raw)
        fb2 == Resolve(BackendRoot \o raw)
        usable(p) == IsPrefix(Resolve(BackendRoot), p) /\ IsFile(p)
        fallback_fails == \/ ResolveRaises(BackendRoot \o <<"media">> \o raw)
                          \/ ResolveRaises(BackendRoot \o raw)
    IN (rpc = "returned" /\ song_filename # <<>> /\ ~IsAbsolute(raw)
          /\ ~media_root_raises /\ ~ResolveRaises(media_root \o raw)
          /\ IsPrefix(media_root, primary)) =>
         IF ~IsFile(primary) /\ fallback_fails
         THEN resolved = Raised("RuntimeError")
         ELSE /\ resolved.kind = "path"
              /\ resolved.path = IF IsFile(primary) THEN primary
                                 ELSE IF usable(fb1) THEN fb1
                                 ELSE IF usable(fb2) THEN fb2
                                 ELSE primary

\* "a.mp3" under MEDIA_ROOT=/data: /data/a.mp3 is missing, both fallback
\* candidates are regular files, and the first one is returned
C13_Witness ==
    /\ rpc = "returned"
    /\ env_media_root = <<"/", "data">>
    /\ song_filename = <<"a.mp3">>
    /\ ~IsFile(<<"/", "data", "a.mp3">>)
    /\ IsFile(<<"/", "srv", "app", "media", "a.mp3">>)
    /\ IsFile(<<"/", "srv", "app", "a.mp3">>)
    /\ resolved = Returned(<<"/", "srv", "app", "media", "a.mp3">>)

(***************************************************************************)
(* Claims about stream_song (checked under Spec).                          *)
(***************************************************************************)
\* the request of thread t found its song row, its database session was
\* committed (no database error was answered) and closed, and the handler
\* has answered; the media root can be resolved and the filesystem is as
\* the handler saw it
Looked(t) ==
    /\ tpc[t] = "done"
    /\ resp[t] # NoResponse
    /\ req[t].song.state = "expired_detached"
    /\ \A fault \in SessionFaults : resp[t] # DbError(fault)
    /\ ~modified
    /\ ~media_root_raises
StoredName(t) == req[t].song.row.filename
Target(t) == resolve_song_media_path(StoredName(t))

\* the song's resolved path is a regular file of at least one byte
HasAudio(t) ==
    /\ Looked(t)
    /\ req[t].stat_ok
    /\ Target(t).kind = "path"
    /\ IsFile(Target(t).path)
    /\ Len(FileData(Target(t).path)) >= 1
AudioSize(t) == Len(FileData(Target(t).path))

\* C2: for a song whose resolved path is a regular file of size >= 1,
\* stream_song answers 206 exactly when _parse_range_header returns a range
\* (start, end), then with Content-Range "bytes start-end/fileSize" and
\* Content-Length end-start+1; otherwise it answers 200 with Content-Length
\* fileSize and no Content-Range. Both carry Accept-Ranges: bytes.
C2_Original ==
    \A t \in DOMAIN req :
        HasAudio(t) =>
            LET br == parse_range_header(req[t].range_header, AudioSize(t))
            IN /\ resp[t].kind = "stream"
               /\ resp[t].headers["Accept-Ranges"] = <<"b", "y", "t", "e", "s">>
               /\ IF br # None
                  THEN /\ resp[t].status = 206
                       /\ "Content-Range" \in DOMAIN resp[t].headers
                       /\ resp[t].headers["Content-Range"] =
                            <<"b", "y", "t", "e", "s", " ">> \o NatStr(br[1]) \o <<"-">>
                            \o NatStr(br[2]) \o <<"/">> \o NatStr(AudioSize(t))
                       /\ resp[t].headers["Content-Length"] = NatStr(br[2] - br[1] + 1)
                  ELSE /\ resp[t].status = 200
                       /\ "Content-Range" \notin DOMAIN resp[t].headers
                       /\ resp[t].headers["Content-Length"] = NatStr(AudioSize(t))

FileMissingResponse ==
    [kind |-> "http_error", status |-> 404,
     detail |-> [error |-> "not_found", message |-> "File missing on server."]]

\* C7: for a song whose row exists, every FileMissing case (empty stored
\* reference, rejected traversal, path that does not exist, path that is
\* not a regular file, failed stat, zero-length file) gets one and the same
\* response: 404 with body {error: "not_found", message: <fixed string>};
\* every 404 of such a request is that response, so the body carries
\* nothing of the path or the cause.
C7_Original ==
    \A t \in DOMAIN req :
        Looked(t) =>
            /\ ( \/ StoredName(t) = <<>>
                 \/ Target(t).kind = "http_error"
                 \/ /\ Target(t).kind = "path"
                    /\ \/ ~Exists(Target(t).path)
                       \/ ~IsFile(Target(t).path)
                       \/ ~req[t].stat_ok
                       \/ Len(FileData(Target(t).path)) = 0 )
               => resp[t] = FileMissingResponse
            /\ (resp[t].kind = "http_error" /\ resp[t].status = 404)
               => resp[t] = FileMissingResponse

\* C12: stream_song never starts a stream for a file whose size at stream
\* time is <= 0: the request ends in the FileMissing 404 whatever the Range
\* header is, and no 200 or 206 response carries Content-Length 0 or a
\* Content-Range whose end is below its start.
C12_Original ==
    \A t \in DOMAIN req :
        /\ ( /\ Looked(t)
             /\ req[t].stat_ok
             /\ Target(t).kind = "path"
             /\ IsFile(Target(t).path)
             /\ Len(FileData(Target(t).path)) <= 0 )
           => resp[t] = FileMissingResponse
        /\ resp[t].kind = "stream" =>
              /\ resp[t].status \in {200, 206}
              /\ resp[t].headers["Content-Length"] # <<"0">>
              /\ resp[t].body.start <= resp[t].body.end

\* a header from which no valid range is parsed, told by its shape: empty,
\* not starting with "bytes=", with a comma, with a non-numeric part, with
\* start >= fileSize or with end < start
Unparsable(hdr, fsz) ==
    \/ hdr = <<>>
    \/ ~StartsWith(hdr, BytesPrefix)
    \/ Contains(hdr, ",")
    \/ Contains(hdr, "x")
    \/ \E s \in 0..(MaxFileSize + 1) :
          \/ hdr = OpenHeader[s] /\ s >= fsz
          \/ \E e \in 0..(MaxFileSize + 1) :
                hdr = ClosedHeader[s][e] /\ (s >= fsz \/ e < s)

\* C8: for a song whose resolved path is a regular file of size >= 1 the
\* status is always 200 or 206, and a Range header from which no valid
\* range is parsed is answered 200 with the full file as body.
C8_Original ==
    \A t \in DOMAIN req :
        HasAudio(t) =>
            /\ resp[t].kind = "stream"
            /\ resp[t].status \in {200, 206}
            /\ Unparsable(req[t].range_header, AudioSize(t)) =>
                  /\ resp[t].status = 200
                  /\ resp[t].headers["Content-Length"] = NatStr(AudioSize(t))
                  /\ resp[t].body.path = Target(t).path
                  /\ resp[t].body.start = 0
                  /\ resp[t].body.end = AudioSize(t) - 1
(***************************************************************************)
(* Claims about _parse_range_header (checked under SpecParse).             *)
(***************************************************************************)
\* C3: for every Range header value and every fileSize >= 1, the parser
\* returns None or a pair (start, end) with 0 <= start <= end <= fileSize-1.
C3_RangeWithinFile ==
    (ppc = "returned" /\ file_size >= 1) =>
        \/ byte_range = None
        \/ /\ Len(byte_range) = 2
           /\ 0 <= byte_range[1]
           /\ byte_range[1] <= byte_range[2]
           /\ byte_range[2] <= file_size - 1

\* a request whose end overruns the file was answered with a clamped range
C3_Witness ==
    /\ ppc = "returned"
    /\ file_size = 2
    /\ range_header = BytesPrefix \o <<"1", "-", "1", "2">>
    /\ byte_range = <<1, 1>>

\* C9: for fileSize >= 1 and the suffix header "bytes=-N": N >= 1 yields
\* (fileSize-N, fileSize-1) when N <= fileSize and (0, fileSize-1) when
\* N > fileSize; N <= 0 yields None.
C9_SuffixRange ==
    (ppc = "returned" /\ file_size >= 1) =>
        \A n \in SignedNums :
            range_header = SuffixHeader[n] =>
                byte_range = IF n <= 0 THEN None
                             ELSE IF n <= file_size
                                  THEN <<file_size - n, file_size - 1>>
                                  ELSE <<0, file_size - 1>>

\* a suffix longer than the file was answered with the whole file
C9_Witness ==
    /\ ppc = "returned"
    /\ file_size = 3
    /\ range_header = BytesPrefix \o <<"-">> \o IntStr(10)
    /\ byte_range = <<0, 2>>

\* C10: for fileSize >= 0 and a header with an explicit start S
\* ("bytes=S-E" or "bytes=S-"), the parser returns None whenever
\* S >= fileSize and whenever E is given and E < S (the requested end, not
\* the clamped one, is compared with S).
C10_RejectStartOrEnd ==
    ppc = "returned" =>
        \A s \in Nums :
            /\ (range_header = OpenHeader[s] /\ s >= file_size)
                   => byte_range = None
            /\ \A e \in SignedNums :
                   ( /\ range_header = ClosedHeader[s][e]
                     /\ (s >= file_size \/ e < s) )
                   => byte_range = None

\* "bytes=2-1" on a file of 3 bytes (start inside the file, end < start)
C10_Witness ==
    /\ ppc = "returned"
    /\ file_size = 3
    /\ range_header = BytesPrefix \o <<"2", "-", "1">>
    /\ byte_range = None

\* C11: for fileSize >= 1, "bytes=S-E" with 0 <= S < fileSize and E >= S
\* yields (S, min(E, fileSize-1)), and "bytes=S-" with 0 <= S < fileSize
\* yields (S, fileSize-1); so "bytes=0-(fileSize-1)" yields (0, fileSize-1),
\* the window of a request without a Range header.
C11_ClampToFile ==
    (ppc = "returned" /\ file_size >= 1) =>
        \A s \in 0..(file_size - 1) :
            /\ range_header = OpenHeader[s] => byte_range = <<s, file_size - 1>>
            /\ \A e \in s..MaxNum :
                   range_header = ClosedHeader[s][e]
                       => byte_range = <<s, IF e < file_size - 1 THEN e
                                            ELSE file_size - 1>>
            /\ range_header = ClosedHeader[0][file_size - 1]
                   => byte_range = <<0, file_size - 1>>

\* "bytes=1-" on a file of 3 bytes was answered with (1, 2)
C11_Witness ==
    /\ ppc = "returned"
    /\ file_size = 3
    /\ range_header = BytesPrefix \o <<"1", "-">>
    /\ byte_range = <<1, 2>>

\* C19 (as stated): for fileSize = 0 the parser returns None for every
\* header value, the suffix headers "bytes=-N" with N >= 1 included.
C19_Original ==
    (ppc = "returned" /\ file_size = 0) => byte_range = None

\* C19 (amended): for fileSize = 0 the parser returns None for every header
\* value but the suffix headers: "bytes=-N" with N >= 1 yields (0, -1), and
\* so does every header whose range-spec has an empty start and an end that
\* int() reads as a positive number; N <= 0 and every header with an
\* explicit start yield None.
C19_EmptyFileSuffix ==
    (ppc = "returned" /\ file_size = 0) =>
        /\ byte_range = None \/ byte_range = <<0, -1>>
        /\ \A n \in SignedNums :
              range_header = SuffixHeader[n] =>
                  byte_range = IF n >= 1 THEN <<0, -1>> ELSE None
        /\ \A s \in Nums :
              \/ range_header = OpenHeader[s]
              \/ \E e \in SignedNums : range_header = ClosedHeader[s][e]
              => byte_range = None
        /\ byte_range # None <=>
              /\ StartsWith(range_header, BytesPrefix)
              /\ LET spec == Strip(SubSeq(range_header, Len(BytesPrefix) + 1,
                                          Len(range_header)))
                     parts == SplitDash(spec)
                 IN /\ ~Contains(spec, ",")
                    /\ Strip(parts[1]) = <<>>
                    /\ ParseInt(Strip(parts[2])).ok
                    /\ ParseInt(Strip(parts[2])).val >= 1

\* "bytes=-1" on an empty file was answered (0, -1)
C19_Witness ==
    /\ ppc = "returned"
    /\ file_size = 0
    /\ range_header = BytesPrefix \o <<"-", "1">>
    /\ byte_range = <<0, -1>>
(***************************************************************************)
(* Claims about upload_song followed by stream_song (checked under         *)
(* SpecUpload).                                                            *)
(***************************************************************************)
Uploaded == upload.pc = "done" /\ upload.status = 200

\* the stream request of thread t for the uploaded song, made after the
\* upload succeeded, with the database and stat working, was answered
StreamedBack(t) ==
    /\ Uploaded
    /\ tpc[t] = "done"
    /\ resp[t] # NoResponse
    /\ req[t].upload_pc = "done"
    /\ req[t].song_id = upload.song_id
    /\ req[t].song.state = "expired_detached"
    /\ \A fault \in SessionFaults : resp[t] # DbError(fault)
    /\ req[t].stat_ok

\* C17: after upload_song succeeded for content B of n >= 1 bytes under
\* any client filename, with MEDIA_ROOT and the filesystem unchanged since,
\* the stored reference resolves to the file that was written; a stream
\* request for the returned id without Range is answered 200 with body B,
\* and one with "bytes=a-b", 0 <= a <= b <= n-1, is answered 206 with
\* Content-Range "bytes a-b/n", Content-Length b-a+1 and body bytes a..b
\* of B.
C17_Original ==
    LET B == upload.content
        n == Len(B)
        found == resolve_song_media_path(db[upload.song_id].filename)
    IN /\ Uploaded =>
            /\ n >= 1
            /\ upload.song_id \in DOMAIN db
            /\ found.kind = "path"
            /\ found.path = media_root \o <<ToString(upload.stored_filename)>>
            /\ IsFile(found.path)
            /\ FileData(found.path) = B
       /\ \A t \in DOMAIN req :
            StreamedBack(t) =>
                /\ resp[t].kind = "stream"
                /\ resp[t].body.path = found.path
                /\ req[t].range_header = <<>> =>
                      /\ resp[t].status = 200
                      /\ resp[t].headers["Content-Length"] = NatStr(n)
                      /\ resp[t].body.start = 0
                      /\ resp[t].body.end = n - 1
                /\ \A a \in 0..(n - 1) : \A b \in a..(n - 1) :
                      req[t].range_header = ClosedHeader[a][b] =>
                          /\ resp[t].status = 206
                          /\ resp[t].headers["Content-Range"] =
                                <<"b", "y", "t", "e", "s", " ">> \o NatStr(a) \o <<"-">>
                                \o NatStr(b) \o <<"/">> \o NatStr(n)
                          /\ resp[t].headers["Content-Length"] = NatStr(b - a + 1)
                          /\ resp[t].body.start = a
                          /\ resp[t].body.end = b

(***************************************************************************)
(* Claims about db.py (checked under SpecEngine).                          *)
(***************************************************************************)
\* C18: under any interleaving of threads that call get_db_session while
\* the engine is not initialized, every caller that has returned from
\* get_engine() sees _SessionLocal not None, so the assertion never fails;
\* and the engine and the session factory are created at most once.
C18_Original ==
    /\ \A t \in Threads : tpc[t] \in {"assert", "open"} => SessionLocal # None
    /\ \A t \in Threads : tpc[t] # "assertion_error"
    /\ made.engines <= 1
    /\ made.factories <= 1

====
